---------------------------- MODULE Spec2Model ----------------------------
(***************************************************************************)
(* A model of the variable substitution core of Bokuchi                    *)
(* (src-tauri/src/variable_processor.rs and the commands that call it).    *)
(*                                                                         *)
(* Text is a sequence of tokens.  A token is one character ("x", " ", ":", *)
(* "{", "}", "\r", "\n", "'") or one of three fixed multi-character        *)
(* literals that the parser's patterns are made of:                        *)
(*     "<!-- @var"       the opening marker without its trailing space     *)
(*     "<!-- @include:"  the include marker                                *)
(*     "-->"             the closing marker without its leading space      *)
(* so that the pattern "<!-- @var " is <<"<!-- @var", " ">> and " -->" is  *)
(* <<" ", "-->">>: the two patterns can share their single space, as they  *)
(* can in the source.  No token contains a brace, a colon or a line break, *)
(* so prefix, suffix, find and the placeholder pattern mean on tokens what *)
(* they mean on characters.                                                *)
(***************************************************************************)
EXTENDS Integers, Sequences, FiniteSets, TLC

VARIABLES
    global_variables,   \* VariableProcessor.global_variables: name -> value
    content,            \* the document text handed to the parser / expander
    yaml_content,       \* the text handed to load_variables_from_yaml
    last,               \* the last call: its arguments, the store before it, its result
    written,            \* history: the names some call has written
    snapshot,           \* the mapping a caller got from get_all_global_variables
    handle,             \* which object the caller's mapping is: "none", "snapshot", "store"
    declared,           \* history: the declarations of the documents expanded so far
    mutex,              \* the Mutex around global_variables: its holder, its poison flag
    thread,             \* each thread's call in progress: position, arguments, locals, result
    sequential,         \* history: the store had every critical section run at once, in lock order
    frontend_ready,     \* FRONTEND_READY
    pending_file_paths, \* PENDING_FILE_PATHS
    emitted,            \* the calls of app_handle.emit("open-file", ..), in order
    disk,               \* the files: which paths exist, their length and content
    opening             \* the open-file handlers and the set_frontend_ready_command
                        \* in progress, each with its position and locals

\* the state of the threads that share the store
threads_vars == <<mutex, thread, sequential>>

\* the state of the file association, and the files it is about
file_open_vars == <<frontend_ready, pending_file_paths, emitted, disk, opening>>

vars == <<global_variables, written, content, yaml_content, last, snapshot, handle,
          declared, threads_vars, file_open_vars>>

-----------------------------------------------------------------------------
(* Bounds *)

\* most lines of a document
MaxLines == 2

\* most variables of a YAML input
MaxVars == 2

\* most tokens cut from the end of a YAML text to make a truncated input
MaxCut == 3

\* most calls one thread makes
MaxCalls == 2

\* most file paths buffered and emitted together
MaxEvents == 3

\* most lines of a document of declarations and placeholders
MaxDeclLines == 3

-----------------------------------------------------------------------------
(* Strings *)

EmptyMap == <<>>

\* char::is_whitespace, on the characters of the model
IsWhitespace(c) == c \in {" ", "\r", "\n"}

RECURSIVE trim_start(_)
trim_start(s) ==
    IF s # <<>> /\ IsWhitespace(Head(s)) THEN trim_start(Tail(s)) ELSE s

RECURSIVE trim_end(_)
trim_end(s) ==
    IF s # <<>> /\ IsWhitespace(s[Len(s)])
    THEN trim_end(SubSeq(s, 1, Len(s) - 1))
    ELSE s

\* str::trim
trim(s) == trim_end(trim_start(s))

\* str::starts_with
starts_with(s, p) == Len(s) >= Len(p) /\ SubSeq(s, 1, Len(p)) = p

\* str::ends_with
ends_with(s, p) ==
    Len(s) >= Len(p) /\ SubSeq(s, Len(s) - Len(p) + 1, Len(s)) = p

\* Option<T>
None == [some |-> FALSE, val |-> <<>>]
Some(v) == [some |-> TRUE, val |-> v]

\* str::strip_prefix
strip_prefix(s, p) ==
    IF starts_with(s, p) THEN Some(SubSeq(s, Len(p) + 1, Len(s))) ELSE None

\* str::strip_suffix
strip_suffix(s, p) ==
    IF ends_with(s, p) THEN Some(SubSeq(s, 1, Len(s) - Len(p))) ELSE None

\* str::find(char): the index of the first occurrence, 0 for None
RECURSIVE find_from(_, _, _)
find_from(s, c, i) ==
    IF i > Len(s) THEN 0
    ELSE IF s[i] = c THEN i
    ELSE find_from(s, c, i + 1)

find(s, c) == find_from(s, c, 1)

\* str::rfind(char): the index of the last occurrence, 0 for None
RECURSIVE rfind(_, _)
rfind(s, c) ==
    IF s = <<>> THEN 0
    ELSE IF s[Len(s)] = c THEN Len(s)
    ELSE rfind(SubSeq(s, 1, Len(s) - 1), c)

\* str::split_inclusive('\n'): the pieces, each ending with its "\n" but
\* possibly the last; no piece for the empty string.
RECURSIVE split_inclusive(_)
split_inclusive(s) ==
    IF s = <<>> THEN <<>>
    ELSE LET k == find(s, "\n") IN
         IF k = 0 THEN <<s>>
         ELSE <<SubSeq(s, 1, k)>> \o split_inclusive(SubSeq(s, k + 1, Len(s)))

\* the closure of str::lines: strip one "\n", then one "\r" before it
line_of(piece) ==
    IF piece # <<>> /\ piece[Len(piece)] = "\n"
    THEN LET l == SubSeq(piece, 1, Len(piece) - 1) IN
         IF l # <<>> /\ l[Len(l)] = "\r" THEN SubSeq(l, 1, Len(l) - 1) ELSE l
    ELSE piece

\* str::lines
lines(s) ==
    LET pieces == split_inclusive(s) IN
    [i \in 1..Len(pieces) |-> line_of(pieces[i])]

\* [&str]::join("\n")
RECURSIVE join(_)
join(ls) ==
    IF ls = <<>> THEN <<>>
    ELSE IF Len(ls) = 1 THEN ls[1]
    ELSE ls[1] \o <<"\n">> \o join(Tail(ls))

\* HashMap::insert
Insert(m, k, v) == [n \in DOMAIN m \cup {k} |-> IF n = k THEN v ELSE m[n]]

-----------------------------------------------------------------------------
(* parse_variables_from_markdown *)

VarPrefix == <<"<!-- @var", " ">>
IncludePrefix == <<"<!-- @include:">>
Suffix == <<" ", "-->">>

\* trimmed.starts_with("<!-- @var ") && trimmed.ends_with(" -->")
is_var_line(trimmed) ==
    starts_with(trimmed, VarPrefix) /\ ends_with(trimmed, Suffix)

\* trimmed.starts_with("<!-- @include:") && trimmed.ends_with(" -->")
is_include_line(trimmed) ==
    starts_with(trimmed, IncludePrefix) /\ ends_with(trimmed, Suffix)

\* a turn of the loop that splits a declaration at its last colon
parse_line_last_colon(acc, line) ==
    LET trimmed == trim(line) IN
    IF acc.panicked THEN acc
    ELSE IF is_var_line(trimmed)
    THEN LET stripped == strip_prefix(trimmed, VarPrefix)
             var_content == strip_suffix(stripped.val, Suffix)
         IN
         IF ~var_content.some
         THEN [acc EXCEPT !.panicked = TRUE]
         ELSE LET colon_index == rfind(var_content.val, ":") IN
              IF colon_index # 0
              THEN [acc EXCEPT !.variables = Append(@,
                       [name  |-> trim(SubSeq(var_content.val, 1, colon_index - 1)),
                        value |-> trim(SubSeq(var_content.val, colon_index + 1,
                                              Len(var_content.val)))])]
              ELSE acc
    ELSE IF is_include_line(trimmed)
    THEN acc
    ELSE [acc EXCEPT !.processed_lines = Append(@, line)]

\* One turn of the loop over the lines.  acc.panicked: an unwrap() of None
\* has unwound the call; nothing after it runs.
parse_line(acc, line) ==
    LET trimmed == trim(line) IN
    IF acc.panicked THEN acc
    ELSE IF is_var_line(trimmed)
    THEN LET stripped == strip_prefix(trimmed, VarPrefix)
             var_content == strip_suffix(stripped.val, Suffix)
         IN
         IF ~var_content.some
         THEN [acc EXCEPT !.panicked = TRUE]
         ELSE LET colon_index == find(var_content.val, ":") IN
              IF colon_index # 0
              THEN [acc EXCEPT !.variables = Append(@,
                       [name  |-> trim(SubSeq(var_content.val, 1, colon_index - 1)),
                        value |-> trim(SubSeq(var_content.val, colon_index + 1,
                                              Len(var_content.val)))])]
              ELSE acc
    ELSE IF is_include_line(trimmed)
    THEN acc
    ELSE [acc EXCEPT !.processed_lines = Append(@, line)]

RECURSIVE parse_lines(_, _, _)
parse_lines(acc, ls, i) ==
    IF i > Len(ls) THEN acc
    ELSE parse_lines(parse_line(acc, ls[i]), ls, i + 1)

\* The result: panicked, or (variables, processed_lines.join("\n")).
parse_variables_from_markdown(text) ==
    LET acc == parse_lines([panicked |-> FALSE, variables |-> <<>>,
                            processed_lines |-> <<>>], lines(text), 1)
    IN [panicked  |-> acc.panicked,
        variables |-> IF acc.panicked THEN <<>> ELSE acc.variables,
        processed |-> IF acc.panicked THEN <<>> ELSE join(acc.processed_lines)]

-----------------------------------------------------------------------------
(* process_variables *)

\* a file_var_map that is kept from one call to the next: the declarations of
\* the documents expanded before stay in it
RECURSIVE file_var_map_kept(_)
file_var_map_kept(variables) ==
    IF variables = <<>> THEN declared
    ELSE LET v == variables[Len(variables)] IN
         Insert(file_var_map_kept(SubSeq(variables, 1, Len(variables) - 1)),
                v.name, v.value)

\* a file_var_map in which the first declaration of a name stays
RECURSIVE file_var_map_first_wins(_)
file_var_map_first_wins(variables) ==
    IF variables = <<>> THEN EmptyMap
    ELSE LET v == variables[1] IN
         Insert(file_var_map_first_wins(Tail(variables)), v.name, v.value)

\* for v in file_variables { file_var_map.insert(v.name, v.value) }
RECURSIVE file_var_map(_)
file_var_map(variables) ==
    IF variables = <<>> THEN EmptyMap
    ELSE LET v == variables[Len(variables)] IN
         Insert(file_var_map(SubSeq(variables, 1, Len(variables) - 1)),
                v.name, v.value)

\* The regular expression \{\{([^}]+)\}\} tried at position i: the index of
\* the match's last token, 0 when it does not match there.  [^}]+ takes every
\* token up to the first "}", and must take at least one.
match_end(s, i) ==
    IF i + 1 <= Len(s) /\ s[i] = "{" /\ s[i + 1] = "{"
    THEN LET k == find_from(s, "}", i + 2) IN
         IF k > i + 2 /\ k + 1 <= Len(s) /\ s[k + 1] = "}" THEN k + 1 ELSE 0
    ELSE 0

\* VariableProcessor::get_global_variable
get_global_variable(store, name) ==
    IF name \in DOMAIN store THEN Some(store[name]) ELSE None

\* a closure that looks a value up again when the value is itself a
\* placeholder of a name it knows
resolve_again(file_vars, store, caps0, caps1) ==
    LET Lookup(n, otherwise) ==
            IF n \in DOMAIN file_vars THEN file_vars[n]
            ELSE IF n \in DOMAIN store THEN store[n]
            ELSE otherwise
        value == Lookup(trim(caps1), caps0)
    IN IF Len(value) >= 5 /\ match_end(value, 1) = Len(value)
       THEN Lookup(trim(SubSeq(value, 3, Len(value) - 2)), value)
       ELSE value

\* resolve with the two lookups in the other order: the global store first
resolve_global_first(file_vars, store, caps0, caps1) ==
    LET var_name == trim(caps1) IN
    IF get_global_variable(store, var_name).some
    THEN get_global_variable(store, var_name).val
    ELSE IF var_name \in DOMAIN file_vars THEN file_vars[var_name]
    ELSE caps0

\* the closure given to replace_all: caps0 is the whole match, caps1 group 1
resolve(file_vars, store, caps0, caps1) ==
    LET var_name == trim(caps1) IN
    IF var_name \in DOMAIN file_vars THEN file_vars[var_name]
    ELSE IF get_global_variable(store, var_name).some
    THEN get_global_variable(store, var_name).val
    ELSE caps0

\* Regex::replace_all: leftmost matches, left to right, none overlapping;
\* a replacement is not scanned again.
RECURSIVE replace_all(_, _, _, _)
replace_all(file_vars, store, s, i) ==
    IF i > Len(s) THEN <<>>
    ELSE LET e == match_end(s, i) IN
         IF e = 0
         THEN <<s[i]>> \o replace_all(file_vars, store, s, i + 1)
         ELSE resolve(file_vars, store, SubSeq(s, i, e), SubSeq(s, i + 2, e - 2))
              \o replace_all(file_vars, store, s, e + 1)

process_variables(store, text) ==
    LET parsed == parse_variables_from_markdown(text) IN
    IF parsed.panicked THEN [panicked |-> TRUE, out |-> <<>>]
    ELSE [panicked |-> FALSE,
          out |-> replace_all(file_var_map(parsed.variables), store,
                              parsed.processed, 1)]

\* the matches replace_all finds in s from position i on, in order:
\* [first, last] token indices of each
RECURSIVE matches_from(_, _)
matches_from(s, i) ==
    IF i > Len(s) THEN <<>>
    ELSE LET e == match_end(s, i) IN
         IF e = 0 THEN matches_from(s, i + 1)
         ELSE <<[first |-> i, last |-> e]>> \o matches_from(s, e + 1)

matches(s) == matches_from(s, 1)

-----------------------------------------------------------------------------
(* serde_yaml, on the texts of the model.  A YAML text is a sequence of      *)
(* tokens: characters, and the literals "variables:", "[]", "- ", "  ",      *)
(* "name: " and "value: ".  serde_yaml::to_string writes a VariableSet as    *)
(*     variables:                     variables: []                          *)
(*     - name: x                                                             *)
(*       value: ''                                                           *)
(* a scalar plain when it can be read back as the same string, in single     *)
(* quotes otherwise.                                                         *)

Indicators == {":", " ", "'", "\r", "\n", "{", "}", "[]", "- "}

plain_allowed(str) ==
    str # <<>> /\ \A i \in 1..Len(str) : str[i] \notin Indicators

emit_scalar(str) ==
    IF plain_allowed(str) THEN str ELSE <<"'">> \o str \o <<"'">>

emit_item(v) ==
    <<"- ", "name: ">> \o emit_scalar(v.name) \o <<"\n">>
    \o <<"  ", "value: ">> \o emit_scalar(v.value) \o <<"\n">>

RECURSIVE emit_items(_)
emit_items(variables) ==
    IF variables = <<>> THEN <<>>
    ELSE emit_item(Head(variables)) \o emit_items(Tail(variables))

\* serde_yaml::to_string(&VariableSet { variables })
to_string(variables) ==
    IF variables = <<>> THEN <<"variables:", " ", "[]", "\n">>
    ELSE <<"variables:", "\n">> \o emit_items(variables)

\* a plain scalar may not hold ": " nor end with ":" (YAML reads a mapping)
plain_readable(raw) ==
    \A i \in 1..Len(raw) :
        raw[i] = ":" => (i < Len(raw) /\ raw[i + 1] # " ")

\* the scalar at position i: quoted up to the closing quote, plain up to
\* the end of the line.  next: the position after it.
read_scalar(t, i) ==
    IF i <= Len(t) /\ t[i] = "'"
    THEN LET k == find_from(t, "'", i + 1) IN
         IF k = 0 THEN [ok |-> FALSE, val |-> <<>>, next |-> i]
         ELSE [ok |-> TRUE, val |-> SubSeq(t, i + 1, k - 1), next |-> k + 1]
    ELSE LET n == find_from(t, "\n", i)
             e == IF n = 0 THEN Len(t) + 1 ELSE n
             raw == SubSeq(t, i, e - 1)
         IN [ok |-> plain_readable(raw), val |-> trim(raw), next |-> e]

\* "name: <scalar>" or "value: <scalar>" at position i
read_field(t, i) ==
    IF i <= Len(t) /\ t[i] \in {"name: ", "value: "}
    THEN LET sc == read_scalar(t, i + 1) IN
         [ok |-> sc.ok, key |-> t[i], val |-> sc.val, next |-> sc.next]
    ELSE [ok |-> FALSE, key |-> "", val |-> <<>>, next |-> i]

\* one element of the sequence: "- " field, line end, "  " field, line end
\* (the last line end may be the end of the text).  Variable has no default:
\* both fields must be there, each once.
read_item(t, i) ==
    LET f1 == read_field(t, i + 1)
        f2 == read_field(t, f1.next + 2)
        bad == [ok |-> FALSE, var |-> [name |-> <<>>, value |-> <<>>], next |-> i]
    IN IF ~(i <= Len(t) /\ t[i] = "- " /\ f1.ok) THEN bad
       ELSE IF ~(f1.next + 1 <= Len(t) /\ t[f1.next] = "\n" /\ t[f1.next + 1] = "  ")
       THEN bad
       ELSE IF ~(f2.ok /\ f2.key # f1.key) THEN bad
       ELSE IF ~(f2.next > Len(t) \/ t[f2.next] = "\n") THEN bad
       ELSE [ok   |-> TRUE,
             var  |-> IF f1.key = "name: "
                      THEN [name |-> f1.val, value |-> f2.val]
                      ELSE [name |-> f2.val, value |-> f1.val],
             next |-> f2.next + 1]

\* the elements from position i on.  On an error `variables` holds the
\* elements read before it; from_str's caller gets the error alone.
RECURSIVE read_items(_, _, _)
read_items(t, i, acc) ==
    IF i > Len(t) THEN [ok |-> TRUE, variables |-> acc]
    ELSE LET it == read_item(t, i) IN
         IF ~it.ok THEN [ok |-> FALSE, variables |-> acc]
         ELSE read_items(t, it.next, Append(acc, it.var))

\* serde_yaml::from_str::<VariableSet>
from_str(t) ==
    IF t \in { <<"variables:", " ", "[]">>, <<"variables:", " ", "[]", "\n">> }
    THEN [ok |-> TRUE, variables |-> <<>>]
    ELSE IF starts_with(t, <<"variables:", "\n">>) /\ Len(t) > 2
    THEN read_items(t, 3, <<>>)
    ELSE [ok |-> FALSE, variables |-> <<>>]

-----------------------------------------------------------------------------
(* The store and the codec *)

\* the loop with an insert that keeps the entry a name already has
RECURSIVE insert_all_first_wins(_, _)
insert_all_first_wins(store, variables) ==
    IF variables = <<>> THEN store
    ELSE insert_all_first_wins(
             IF Head(variables).name \in DOMAIN store THEN store
             ELSE Insert(store, Head(variables).name, Head(variables).value),
             Tail(variables))

\* for v in var_set.variables { vars.insert(v.name, v.value) }
RECURSIVE insert_all(_, _)
insert_all(store, variables) ==
    IF variables = <<>> THEN store
    ELSE insert_all(Insert(store, Head(variables).name, Head(variables).value),
                    Tail(variables))

\* load_variables_from_yaml that inserts as it reads, up to the error
load_variables_from_yaml_partial(store, text) ==
    LET var_set == from_str(text) IN
    [ok |-> var_set.ok, vars |-> insert_all(store, var_set.variables)]

\* load_variables_from_yaml that replaces the map by the input's pairs
load_variables_from_yaml_replace(store, text) ==
    LET var_set == from_str(text) IN
    IF ~var_set.ok THEN [ok |-> FALSE, vars |-> store]
    ELSE [ok |-> TRUE, vars |-> insert_all(EmptyMap, var_set.variables)]

\* VariableProcessor::load_variables_from_yaml: the Result and the store after
load_variables_from_yaml(store, text) ==
    LET var_set == from_str(text) IN
    IF ~var_set.ok THEN [ok |-> FALSE, vars |-> store]
    ELSE [ok |-> TRUE, vars |-> insert_all(store, var_set.variables)]

\* the orders in which a HashMap's into_iter may yield its entries
IterationOrders(store) ==
    { o \in [1..Cardinality(DOMAIN store) -> DOMAIN store] :
        \A i, j \in DOMAIN o : o[i] = o[j] => i = j }

\* export_variables_to_yaml with name and value exchanged in the closure
export_variables_to_yaml_swapped(store, order) ==
    to_string([i \in DOMAIN order |->
                  [name |-> store[order[i]], value |-> order[i]]])

\* VariableProcessor::export_variables_to_yaml, the map iterated in `order`
export_variables_to_yaml(store, order) ==
    to_string([i \in DOMAIN order |->
                  [name |-> order[i], value |-> store[order[i]]]])

\* set_global_variable that keeps the value of a name already set
set_global_variable_if_absent(store, name, value) ==
    IF name \in DOMAIN store THEN store ELSE Insert(store, name, value)

\* VariableProcessor::set_global_variable
set_global_variable(store, name, value) == Insert(store, name, value)

\* get_all_global_variables handing out the guarded map itself
get_all_global_variables_live(store) == [object |-> "store", map |-> store]

\* VariableProcessor::get_all_global_variables: vars.clone(), a new map
get_all_global_variables(store) == [object |-> "snapshot", map |-> store]

\* the overrides kept as an overlay of the call: the store is not written
set_overrides_scoped(store, overrides) == store

\* for (name, value) in global_variables { set_global_variable(name, value) }
\* of process_markdown and get_expanded_markdown; the keys of a HashMap are
\* distinct, so the order of the loop does not show
set_overrides(store, overrides) ==
    [n \in DOMAIN store \cup DOMAIN overrides |->
        IF n \in DOMAIN overrides
        THEN set_global_variable(store, n, overrides[n])[n]
        ELSE store[n]]

-----------------------------------------------------------------------------
(* The calls and their record *)

Names == {<<"x">>, <<"y">>}

\* the record of a call; a field a call does not use keeps its value here
NoCall ==
    [op        |-> "none",
     name      |-> <<>>,      \* argument: name
     value     |-> <<>>,      \* argument: value
     overrides |-> EmptyMap,  \* argument: global_variables of the expand commands
     before    |-> EmptyMap,  \* the store when the call began
     ok        |-> TRUE,      \* Result: Ok or Err
     panicked  |-> FALSE,     \* the call unwound with a panic
     opt       |-> None,      \* result: Option<String>
     map       |-> EmptyMap,  \* result: HashMap<String, String>
     text      |-> <<>>,      \* result: String
     variables |-> <<>>]      \* result: Vec<Variable>

Call(op) == [NoCall EXCEPT !.op = op, !.before = global_variables]

\* commands.rs set_global_variable -> VariableProcessor::set_global_variable
SetGlobalVariable(name, value) ==
    /\ global_variables' = set_global_variable(global_variables, name, value)
    /\ written' = written \cup {name}
    /\ last' = [Call("set") EXCEPT !.name = name, !.value = value]
    /\ UNCHANGED <<content, yaml_content, snapshot, handle,
                    declared, threads_vars, file_open_vars>>

\* VariableProcessor::get_global_variable
GetGlobalVariable(name) ==
    /\ last' = [Call("get") EXCEPT !.name = name,
                    !.opt = get_global_variable(global_variables, name)]
    /\ UNCHANGED <<global_variables, written, content, yaml_content, snapshot, handle,
                    declared, threads_vars, file_open_vars>>

\* commands.rs get_global_variables: the mapping goes to the frontend
GetGlobalVariables ==
    /\ last' = [Call("get_global_variables") EXCEPT
                    !.map = get_all_global_variables(global_variables).map]
    /\ UNCHANGED <<global_variables, written, content, yaml_content, snapshot, handle,
                    declared, threads_vars, file_open_vars>>

\* VariableProcessor::get_all_global_variables called from Rust: the caller
\* now holds the returned mapping
GetAllGlobalVariables ==
    LET r == get_all_global_variables(global_variables) IN
    /\ snapshot' = r.map
    /\ handle' = r.object
    /\ last' = [Call("get_all") EXCEPT !.map = r.map]
    /\ UNCHANGED <<global_variables, written, content, yaml_content,
                    declared, threads_vars, file_open_vars>>

\* the mapping the caller holds, as the caller sees it
HeldMapping == IF handle = "store" THEN global_variables ELSE snapshot

\* the caller inserts into the mapping it got from get_all_global_variables
CallerInserts(name, value) ==
    /\ handle # "none"
    /\ IF handle = "store"
       THEN /\ global_variables' = Insert(global_variables, name, value)
            /\ UNCHANGED snapshot
       ELSE /\ snapshot' = Insert(snapshot, name, value)
            /\ UNCHANGED global_variables
    /\ last' = [Call("caller_insert") EXCEPT !.name = name, !.value = value,
                    !.map = HeldMapping]
    /\ UNCHANGED <<written, content, yaml_content, handle,
                    declared, threads_vars, file_open_vars>>

\* HashMap::remove
Remove(m, k) == [n \in DOMAIN m \ {k} |-> m[n]]

\* the caller removes from the mapping it got from get_all_global_variables
CallerRemoves(name) ==
    /\ handle # "none"
    /\ IF handle = "store"
       THEN /\ global_variables' = Remove(global_variables, name)
            /\ UNCHANGED snapshot
       ELSE /\ snapshot' = Remove(snapshot, name)
            /\ UNCHANGED global_variables
    /\ last' = [Call("caller_remove") EXCEPT !.name = name, !.map = HeldMapping]
    /\ UNCHANGED <<written, content, yaml_content, handle,
                    declared, threads_vars, file_open_vars>>

\* the names of the pairs a well-formed input holds
NamesOf(variables) == { variables[i].name : i \in 1..Len(variables) }

\* commands.rs load_variables_from_yaml -> load_variables_from_yaml
LoadVariablesFromYaml ==
    LET r == load_variables_from_yaml(global_variables, yaml_content) IN
    /\ global_variables' = r.vars
    /\ written' = IF from_str(yaml_content).ok
                  THEN written \cup NamesOf(from_str(yaml_content).variables)
                  ELSE written
    /\ last' = [Call("load") EXCEPT !.ok = r.ok]
    /\ UNCHANGED <<content, yaml_content, snapshot, handle,
                    declared, threads_vars, file_open_vars>>

\* commands.rs export_variables_to_yaml -> export_variables_to_yaml
ExportVariablesToYaml ==
    \E order \in IterationOrders(global_variables) :
        /\ last' = [Call("export") EXCEPT
                        !.text = export_variables_to_yaml(global_variables, order)]
        /\ UNCHANGED <<global_variables, written, content, yaml_content,
                       snapshot, handle,
                    declared, threads_vars, file_open_vars>>

\* tests.rs test_yaml_roundtrip, from the export on: export, then load the
\* text into a new VariableProcessor and read all its variables
YamlRoundtrip ==
    \E order \in IterationOrders(global_variables) :
        LET yaml == export_variables_to_yaml(global_variables, order)
            r == load_variables_from_yaml(EmptyMap, yaml)
        IN /\ last' = [Call("roundtrip") EXCEPT !.text = yaml, !.ok = r.ok,
                           !.map = get_all_global_variables(r.vars).map]
           /\ UNCHANGED <<global_variables, written, content, yaml_content,
                          snapshot, handle,
                    declared, threads_vars, file_open_vars>>

\* commands.rs process_markdown and get_expanded_markdown (the same body):
\* the overrides are set one by one, then the content is expanded
ExpandCommand(op, overrides) ==
    LET merged == set_overrides(global_variables, overrides)
        r == process_variables(merged, content)
    IN /\ global_variables' = merged
       /\ written' = written \cup DOMAIN overrides
       /\ last' = [Call(op) EXCEPT !.overrides = overrides,
                       !.panicked = r.panicked, !.text = r.out]
       /\ declared' = insert_all(declared,
                                 parse_variables_from_markdown(content).variables)
       /\ UNCHANGED <<content, yaml_content, snapshot, handle,
                    threads_vars, file_open_vars>>

ProcessMarkdown(overrides) == ExpandCommand("process_markdown", overrides)

GetExpandedMarkdown(overrides) == ExpandCommand("get_expanded_markdown", overrides)

ParseVariablesFromMarkdown ==
    LET r == parse_variables_from_markdown(content) IN
    /\ last' = [Call("parse") EXCEPT !.panicked = r.panicked,
                    !.variables = r.variables, !.text = r.processed]
    /\ UNCHANGED <<global_variables, written, content, yaml_content, snapshot, handle,
                    declared, threads_vars, file_open_vars>>

ProcessVariables ==
    LET r == process_variables(global_variables, content) IN
    /\ last' = [Call("process") EXCEPT !.panicked = r.panicked, !.text = r.out]
    /\ declared' = insert_all(declared,
                              parse_variables_from_markdown(content).variables)
    /\ UNCHANGED <<global_variables, written, content, yaml_content, snapshot, handle,
                    threads_vars, file_open_vars>>

-----------------------------------------------------------------------------
(* The parts of the state a specification leaves aside *)

\* the threads that call into the shared VARIABLE_PROCESSOR
Threads == {1, 2}

\* Mutex::new(..): no holder, not poisoned
Unlocked == [holder |-> 0, poisoned |-> FALSE]

\* a thread between calls; the fields are those of NoCall, and
\*   pc       where the thread is: "idle", "lock" (at a lock().unwrap()),
\*            "held" (in the critical section), "done" (the call is over)
\*   at       the locking function it is in: "set", "get", "get_all", "load"
\*   calls    how many calls it has made
\*   todo     the pairs a loop has still to insert
\*   names    the entries vars.clone() has still to copy
\*   file_var_map   the local of process_variables
\*   plan     the calls of get_global_variable replace_all has still to make
\*   panic    why the call unwound: "none", "parse", "poison", "fault"
\*   expect_opt, expect_map    history: what the call returns if it runs
\*            alone at the moment it takes the lock
\*   before   history: the store when the call took the lock
\*   stores   history: the states the store has had since the call began
IdleThread ==
    [op |-> "none", pc |-> "idle", at |-> "none", calls |-> 0,
     name |-> <<>>, value |-> <<>>, overrides |-> EmptyMap,
     todo |-> <<>>, names |-> {}, file_var_map |-> EmptyMap, plan |-> <<>>,
     ok |-> TRUE, panic |-> "none", opt |-> None, map |-> EmptyMap, text |-> <<>>,
     expect_opt |-> None, expect_map |-> EmptyMap, before |-> EmptyMap,
     stores |-> {}]

NoThreads ==
    /\ mutex = Unlocked
    /\ thread = [t \in Threads |-> IdleThread]
    /\ sequential = EmptyMap

\* OnceLock: FRONTEND_READY starts false, PENDING_FILE_PATHS empty
\* read_file: the most bytes a file may have
MaxFileSize == 10 * 1024 * 1024

\* the paths of the model
Paths ==
    { <<"/", "a", ".", "md">>, <<"/", "b", ".", "Txt">>, <<"/", "c", ".", "MD">>,
      <<"/", "d", ".", "rs">>, <<"/", "e">>, <<"/", ".", "md">>,
      <<"/", "f", ".", "md">>, <<"/", "g", ".", "md">>, <<"/", "h", ".", "txt">> }

NoFile == [exists |-> FALSE, len |-> 0, utf8 |-> TRUE, content |-> <<>>]

\* a file of text: its length is the length of its content
TextFile(text) == [exists |-> TRUE, len |-> Len(text), utf8 |-> TRUE, content |-> text]

\* the files there are at the start: all but /f.md; /g.md is one byte over
\* the limit of read_file, /h.txt is not UTF-8
InitialDisk ==
    [path \in Paths |->
        CASE path = <<"/", "f", ".", "md">> -> NoFile
          [] path = <<"/", "g", ".", "md">> ->
                [TextFile(path) EXCEPT !.len = MaxFileSize + 1]
          [] path = <<"/", "h", ".", "txt">> ->
                [TextFile(path) EXCEPT !.utf8 = FALSE]
          [] OTHER -> TextFile(path)]

\* the threads that run handle_open_file_event
Handlers == {1, 2}

\* no handler and no set_frontend_ready_command has begun.  A handler's
\* early says whether it began before set_frontend_ready_command returned.
NotOpening ==
    [handler |-> [h \in Handlers |-> [pc |-> "idle", file_path |-> <<>>, early |-> FALSE]],
     command |-> [pc |-> "idle", pending |-> <<>>]]

NoFileOpen ==
    /\ frontend_ready = FALSE
    /\ pending_file_paths = <<>>
    /\ emitted = <<>>
    /\ disk = InitialDisk
    /\ opening = NotOpening

-----------------------------------------------------------------------------
(* Documents: up to MaxLines lines of LineSet, each pair of lines separated  *)
(* by "\n" or "\r\n", the last line ended by nothing, "\n" or "\r\n".        *)

LineSet ==
    { <<"<!-- @var", " ", "x", ":", " ", "A", " ", "-->">>,
      <<" ", "<!-- @var", " ", "y", ":", "A", ":", "x", " ", "-->", " ">>,
      <<"<!-- @var", " ", "-->">>,
      <<"<!-- @var", " ", "x", " ", "-->">>,
      <<"<!-- @include:", " ", "x", " ", "-->">>,
      <<" ", "{", "{", "x", "}", "}">>,
      <<"{", "{", " ", "y">>,
      <<"}", "}">>,
      <<>> }

Terminators == { <<"\n">>, <<"\r", "\n">> }

RECURSIVE DocsOfLines(_)
DocsOfLines(k) ==
    IF k = 0 THEN { <<>> }
    ELSE IF k = 1 THEN LineSet
    ELSE { d \o t \o l : d \in DocsOfLines(k - 1), t \in Terminators, l \in LineSet }

Docs ==
    UNION { { d \o t : d \in DocsOfLines(k), t \in Terminators \cup { <<>> } }
            : k \in 0..MaxLines }

\* the value the document specification gives a global variable; no
\* declaration of LineSet has it
GlobalValue == <<"B">>

InitDoc ==
    /\ global_variables = EmptyMap
    /\ written = {}
    /\ content \in Docs
    /\ yaml_content = <<>>
    /\ last = NoCall
    /\ snapshot = EmptyMap
    /\ handle = "none"
    /\ declared = EmptyMap
    /\ NoThreads
    /\ NoFileOpen

NextDoc ==
    \/ \E n \in Names : SetGlobalVariable(n, GlobalValue)
    \/ ParseVariablesFromMarkdown
    \/ ProcessVariables

SpecDoc == InitDoc /\ [][NextDoc]_vars

-----------------------------------------------------------------------------
(* Documents of declarations and placeholders: up to MaxDeclLines lines of   *)
(* DeclLineSet, joined by "\n".  A name is declared twice with two values,   *)
(* and one declared value is the text of a placeholder.                      *)

PlaceholderY == <<"{", "{", "y", "}", "}">>

DeclLineSet ==
    { <<"<!-- @var", " ", "x", ":", " ">> \o PlaceholderY \o <<" ", "-->">>,
      <<"<!-- @var", " ", "x", ":", " ", "A", " ", "-->">>,
      <<"<!-- @var", " ", "y", ":", " ", "C", " ", "-->">>,
      <<"{", "{", "x", "}", "}", "{", "{", " ", "y", " ", "}", "}">>,
      <<"{", "{", "x", "}", "}">> }

RECURSIVE DeclDocsOfLines(_)
DeclDocsOfLines(k) ==
    IF k = 0 THEN { <<>> }
    ELSE IF k = 1 THEN DeclLineSet
    ELSE { d \o <<"\n">> \o l : d \in DeclDocsOfLines(k - 1), l \in DeclLineSet }

DeclDocs == UNION { DeclDocsOfLines(k) : k \in 0..MaxDeclLines }

\* the values this specification gives a global variable: a plain one and
\* the text of a placeholder
DeclGlobalValues == { <<"B">>, PlaceholderY }

InitDecl ==
    /\ global_variables = EmptyMap
    /\ written = {}
    /\ content \in DeclDocs
    /\ yaml_content = <<>>
    /\ last = NoCall
    /\ snapshot = EmptyMap
    /\ handle = "none"
    /\ declared = EmptyMap
    /\ NoThreads
    /\ NoFileOpen

NextDecl ==
    \/ \E n \in Names, v \in DeclGlobalValues : SetGlobalVariable(n, v)
    \/ ParseVariablesFromMarkdown
    \/ ProcessVariables

SpecDecl == InitDecl /\ [][NextDecl]_vars

-----------------------------------------------------------------------------
(* The store and the commands on it *)

Values == { <<"A">>, <<>> }

Variables == [name : Names, value : Values]

\* the override mappings of the expand commands
Overrides == UNION { [D -> Values] : D \in SUBSET Names }

ExpandDocs ==
    { <<" ", "{", "{", "x", "}", "}">>,
      <<"<!-- @var", " ", "x", ":", " ", "A", " ", "-->", "\n",
        "{", "{", "x", "}", "}", "{", "{", " ", "y", " ", "}", "}">> }

\* an empty list, a list of two pairs, and that list cut inside its last
\* scalar (the closing quote is missing)
CommandYamlInputs ==
    LET two == to_string(<< [name |-> <<"x">>, value |-> <<"A">>],
                            [name |-> <<"y">>, value |-> <<>>] >>)
    IN { to_string(<<>>), two, SubSeq(two, 1, Len(two) - 2) }

Init ==
    /\ global_variables = EmptyMap
    /\ written = {}
    /\ content \in ExpandDocs
    /\ yaml_content \in CommandYamlInputs
    /\ last = NoCall
    /\ snapshot = EmptyMap
    /\ handle = "none"
    /\ declared = EmptyMap
    /\ NoThreads
    /\ NoFileOpen

Next ==
    \/ \E n \in Names, v \in Values : SetGlobalVariable(n, v)
    \/ \E n \in Names : GetGlobalVariable(n)
    \/ GetGlobalVariables
    \/ LoadVariablesFromYaml
    \/ ExportVariablesToYaml
    \/ \E o \in Overrides : ProcessMarkdown(o)
    \/ \E o \in Overrides : GetExpandedMarkdown(o)

Spec == Init /\ [][Next]_vars

-----------------------------------------------------------------------------
(* The codec: one YAML input per behaviour, a text serde_yaml writes for a   *)
(* list of up to MaxVars variables, whole or with up to MaxCut tokens cut    *)
(* from its end                                                              *)

VariableLists == UNION { [1..n -> Variables] : n \in 0..MaxVars }

YamlInputs ==
    { SubSeq(to_string(l), 1, Len(to_string(l)) - k) :
        l \in VariableLists, k \in 0..MaxCut }

InitYaml ==
    /\ global_variables = EmptyMap
    /\ written = {}
    /\ content = <<>>
    /\ yaml_content \in YamlInputs
    /\ last = NoCall
    /\ snapshot = EmptyMap
    /\ handle = "none"
    /\ declared = EmptyMap
    /\ NoThreads
    /\ NoFileOpen

NextYaml ==
    \/ \E n \in Names, v \in Values : SetGlobalVariable(n, v)
    \/ LoadVariablesFromYaml
    \/ ExportVariablesToYaml
    \/ YamlRoundtrip

SpecYaml == InitYaml /\ [][NextYaml]_vars

-----------------------------------------------------------------------------
(* The caller of get_all_global_variables and the mapping it holds *)

InitSnapshot ==
    /\ global_variables = EmptyMap
    /\ written = {}
    /\ content = <<>>
    /\ yaml_content = <<>>
    /\ last = NoCall
    /\ snapshot = EmptyMap
    /\ handle = "none"
    /\ declared = EmptyMap
    /\ NoThreads
    /\ NoFileOpen

NextSnapshot ==
    \/ \E n \in Names, v \in Values : SetGlobalVariable(n, v)
    \/ GetAllGlobalVariables
    \/ \E n \in Names, v \in Values : CallerInserts(n, v)
    \/ \E n \in Names : CallerRemoves(n)

SpecSnapshot == InitSnapshot /\ [][NextSnapshot]_vars

-----------------------------------------------------------------------------
(* Threads on the shared store.  A call runs step by step: it waits at       *)
(* lock().unwrap(), works in the critical section (vars.clone() entry by     *)
(* entry, the loop of load_variables_from_yaml pair by pair), and the guard  *)
(* is dropped where its scope ends.  What a thread does on its own locals    *)
(* between two critical sections is part of the step before.                 *)

\* a lock() that never waits
lock_never_waits(m, t) == TRUE

\* a lock() that lets the reading functions in while the lock is held
lock_lets_readers_in(m, t) ==
    m.holder = 0 \/ thread[t].at \in {"get", "get_all"}

\* Mutex::lock returns when no thread holds the mutex
lock_available(m, t) == m.holder = 0

\* a guard that is never dropped
drop_guard_leaked(m) == m

\* the MutexGuard goes out of scope
drop_guard(m) == [m EXCEPT !.holder = 0]

\* Regex::replace_all from position i on: where the next placeholder is whose
\* name is not in file_var_map, for which the closure calls
\* get_global_variable (0 when the text ends first)
RECURSIVE next_lookup(_, _, _)
next_lookup(file_vars, s, i) ==
    IF i > Len(s) THEN 0
    ELSE IF match_end(s, i) = 0 THEN next_lookup(file_vars, s, i + 1)
    ELSE IF trim(SubSeq(s, i + 2, match_end(s, i) - 2)) \in DOMAIN file_vars
    THEN next_lookup(file_vars, s, match_end(s, i) + 1)
    ELSE i

\* what replace_all makes of the tokens i .. j-1, whose placeholders all have
\* their names in file_var_map
RECURSIVE replaced_locally(_, _, _, _)
replaced_locally(file_vars, s, i, j) ==
    IF i >= j THEN <<>>
    ELSE IF match_end(s, i) = 0
    THEN <<s[i]>> \o replaced_locally(file_vars, s, i + 1, j)
    ELSE resolve(file_vars, EmptyMap, SubSeq(s, i, match_end(s, i)),
                 SubSeq(s, i + 2, match_end(s, i) - 2))
         \o replaced_locally(file_vars, s, match_end(s, i) + 1, j)

\* the calls of the closure that reach get_global_variable, in order, from
\* position i on: the match (caps0), its group 1 (caps1), and what
\* replace_all writes after it up to the next such call.  The remainder is
\* not changed while replace_all runs, so these are fixed when it begins.
RECURSIVE lookups(_, _, _)
lookups(file_vars, s, i) ==
    LET k == next_lookup(file_vars, s, i)
        e == match_end(s, k)
        k2 == next_lookup(file_vars, s, e + 1)
    IN IF k = 0 THEN <<>>
       ELSE << [caps0 |-> SubSeq(s, k, e),
                caps1 |-> SubSeq(s, k + 2, e - 2),
                then  |-> replaced_locally(file_vars, s, e + 1,
                                           IF k2 = 0 THEN Len(s) + 1 ELSE k2)] >>
            \o lookups(file_vars, s, e + 1)

\* the thread is at the next call of get_global_variable by the closure, or
\* at the return of process_variables
at_next_lookup(f) ==
    IF f.plan = <<>>
    THEN [f EXCEPT !.pc = "done", !.at = "none"]
    ELSE [f EXCEPT !.name = trim(f.plan[1].caps1), !.pc = "lock", !.at = "get"]

\* process_variables from its first line to the first get_global_variable
enter_process_variables(f) ==
    LET parsed == parse_variables_from_markdown(content)
        file_vars == file_var_map(parsed.variables)
        first == next_lookup(file_vars, parsed.processed, 1)
    IN IF parsed.panicked
       THEN [f EXCEPT !.pc = "done", !.at = "none", !.panic = "parse"]
       ELSE at_next_lookup(
                [f EXCEPT !.file_var_map = file_vars,
                          !.plan = lookups(file_vars, parsed.processed, 1),
                          !.text = replaced_locally(file_vars, parsed.processed, 1,
                                       IF first = 0 THEN Len(parsed.processed) + 1
                                       ELSE first)])

\* a thread may begin a call
MayCall(t) ==
    /\ thread[t].pc \in {"idle", "done"}
    /\ thread[t].calls < MaxCalls

NewCall(t, op) ==
    [IdleThread EXCEPT !.op = op, !.calls = thread[t].calls + 1]

\* history: a call of process_variables in progress sees the store change
Observe(f, store) ==
    IF f.op = "process_variables" /\ f.pc \in {"lock", "held"}
    THEN [f EXCEPT !.stores = @ \cup {store}]
    ELSE f

\* thread t becomes f and the store becomes `store`
Becomes(t, f, store) ==
    /\ global_variables' = store
    /\ thread' = [u \in Threads |-> IF u = t THEN f ELSE Observe(thread[u], store)]

ThreadFrame ==
    UNCHANGED <<written, content, yaml_content, last, snapshot, handle,
                declared, file_open_vars>>

CallSetGlobalVariable(t, name, value) ==
    /\ MayCall(t)
    /\ thread' = [thread EXCEPT ![t] =
                     [NewCall(t, "set") EXCEPT !.name = name, !.value = value,
                                               !.pc = "lock", !.at = "set"]]
    /\ UNCHANGED <<global_variables, mutex, sequential>>
    /\ ThreadFrame

CallGetGlobalVariable(t, name) ==
    /\ MayCall(t)
    /\ thread' = [thread EXCEPT ![t] =
                     [NewCall(t, "get") EXCEPT !.name = name,
                                               !.pc = "lock", !.at = "get"]]
    /\ UNCHANGED <<global_variables, mutex, sequential>>
    /\ ThreadFrame

CallGetAllGlobalVariables(t) ==
    /\ MayCall(t)
    /\ thread' = [thread EXCEPT ![t] =
                     [NewCall(t, "get_all") EXCEPT !.pc = "lock", !.at = "get_all"]]
    /\ UNCHANGED <<global_variables, mutex, sequential>>
    /\ ThreadFrame

\* load_variables_from_yaml up to its lock(): from_str, and `?` returns Err
CallLoadVariablesFromYaml(t) ==
    LET var_set == from_str(yaml_content) IN
    /\ MayCall(t)
    /\ thread' = [thread EXCEPT ![t] =
                     IF var_set.ok
                     THEN [NewCall(t, "load") EXCEPT !.todo = var_set.variables,
                                                     !.pc = "lock", !.at = "load"]
                     ELSE [NewCall(t, "load") EXCEPT !.ok = FALSE, !.pc = "done"]]
    /\ UNCHANGED <<global_variables, mutex, sequential>>
    /\ ThreadFrame

\* export_variables_to_yaml up to the lock() of get_all_global_variables
CallExportVariablesToYaml(t) ==
    /\ MayCall(t)
    /\ thread' = [thread EXCEPT ![t] =
                     [NewCall(t, "export") EXCEPT !.pc = "lock", !.at = "get_all"]]
    /\ UNCHANGED <<global_variables, mutex, sequential>>
    /\ ThreadFrame

CallProcessVariables(t) ==
    /\ MayCall(t)
    /\ thread' = [thread EXCEPT ![t] =
                     enter_process_variables(
                         [NewCall(t, "process_variables") EXCEPT
                              !.stores = {global_variables}])]
    /\ UNCHANGED <<global_variables, mutex, sequential>>
    /\ ThreadFrame

\* process_markdown and get_expanded_markdown up to the lock() of the first
\* set_global_variable; the HashMap of overrides is iterated in some order
CallExpandCommand(t, op, overrides) ==
    /\ MayCall(t)
    /\ \E order \in IterationOrders(overrides) :
          thread' = [thread EXCEPT ![t] =
                       IF overrides = EmptyMap
                       THEN enter_process_variables(NewCall(t, op))
                       ELSE [NewCall(t, op) EXCEPT
                                !.overrides = overrides,
                                !.todo = [k \in DOMAIN order |->
                                             [name |-> order[k],
                                              value |-> overrides[order[k]]]],
                                !.name = order[1],
                                !.value = overrides[order[1]],
                                !.pc = "lock", !.at = "set"]]
    /\ UNCHANGED <<global_variables, mutex, sequential>>
    /\ ThreadFrame

CallProcessMarkdown(t, overrides) == CallExpandCommand(t, "process_markdown", overrides)

CallGetExpandedMarkdown(t, overrides) ==
    CallExpandCommand(t, "get_expanded_markdown", overrides)

\* self.global_variables.lock().unwrap(): the thread waits for the mutex;
\* on a poisoned mutex lock() is an Err and unwrap panics (the guard inside
\* the error is dropped as the thread unwinds).  History: the call takes its
\* place in the order of the critical sections.
Lock(t) ==
    LET f == thread[t] IN
    /\ f.pc = "lock"
    /\ lock_available(mutex, t)
    /\ IF mutex.poisoned
       THEN /\ thread' = [thread EXCEPT ![t] =
                            [f EXCEPT !.pc = "done", !.at = "none", !.panic = "poison"]]
            /\ UNCHANGED <<mutex, sequential>>
       ELSE /\ mutex' = [mutex EXCEPT !.holder = t]
            /\ thread' = [thread EXCEPT ![t] =
                            [f EXCEPT !.pc = "held",
                                      !.before = global_variables,
                                      !.names = IF f.at = "get_all"
                                                THEN DOMAIN global_variables ELSE {},
                                      !.expect_opt = get_global_variable(sequential, f.name),
                                      !.expect_map = sequential]]
            /\ sequential' =
                  CASE f.at = "set" -> set_global_variable(sequential, f.name, f.value)
                    [] f.at = "load" -> insert_all(sequential, f.todo)
                    [] OTHER -> sequential
    /\ UNCHANGED global_variables
    /\ ThreadFrame

\* set_global_variable: vars.insert(name, value), and the guard is dropped;
\* in an expand command the loop goes on to its next pair, or to
\* process_variables
SetInsert(t) ==
    LET f == thread[t]
        rest == Tail(f.todo)
    IN /\ f.pc = "held"
       /\ f.at = "set"
       /\ mutex' = drop_guard(mutex)
       /\ Becomes(t,
                  IF f.op = "set" THEN [f EXCEPT !.pc = "done", !.at = "none"]
                  ELSE IF rest # <<>>
                  THEN [f EXCEPT !.todo = rest, !.name = rest[1].name,
                                 !.value = rest[1].value, !.pc = "lock"]
                  ELSE enter_process_variables([f EXCEPT !.todo = rest]),
                  set_global_variable(global_variables, f.name, f.value))
       /\ UNCHANGED sequential
       /\ ThreadFrame

\* get_global_variable: vars.get(name).cloned(), and the guard is dropped;
\* in process_variables the closure returns and replace_all goes on
GetCloned(t) ==
    LET f == thread[t] IN
    /\ f.pc = "held"
    /\ f.at = "get"
    /\ mutex' = drop_guard(mutex)
    /\ thread' = [thread EXCEPT ![t] =
                     IF f.op = "get"
                     THEN [f EXCEPT !.opt = get_global_variable(global_variables, f.name),
                                    !.pc = "done", !.at = "none"]
                     ELSE IF Len(f.plan) = 1
                     THEN [f EXCEPT !.text = @ \o resolve(f.file_var_map, global_variables,
                                                          f.plan[1].caps0, f.plan[1].caps1)
                                             \o f.plan[1].then,
                                    !.plan = <<>>,
                                    !.pc = "done", !.at = "none"]
                     ELSE [f EXCEPT !.text = @ \o resolve(f.file_var_map, global_variables,
                                                          f.plan[1].caps0, f.plan[1].caps1)
                                             \o f.plan[1].then,
                                    !.plan = Tail(@),
                                    !.name = trim(f.plan[2].caps1),
                                    !.pc = "lock"]]
    /\ UNCHANGED <<global_variables, sequential>>
    /\ ThreadFrame

\* vars.clone(): one entry is copied
CloneEntry(t) ==
    LET f == thread[t] IN
    /\ f.pc = "held"
    /\ f.at = "get_all"
    /\ \E n \in f.names :
          thread' = [thread EXCEPT ![t] =
                       [f EXCEPT !.map = Insert(@, n, global_variables[n]),
                                 !.names = @ \ {n}]]
    /\ UNCHANGED <<global_variables, mutex, sequential>>
    /\ ThreadFrame

\* vars.clone() is complete and the guard is dropped: get_all_global_variables
\* returns; export_variables_to_yaml writes the mapping it got
Cloned(t) ==
    LET f == thread[t] IN
    /\ f.pc = "held"
    /\ f.at = "get_all"
    /\ f.names = {}
    /\ mutex' = drop_guard(mutex)
    /\ \E order \in IterationOrders(f.map) :
          thread' = [thread EXCEPT ![t] =
                       [f EXCEPT !.text = IF f.op = "export"
                                          THEN export_variables_to_yaml(f.map, order)
                                          ELSE <<>>,
                                 !.pc = "done", !.at = "none"]]
    /\ UNCHANGED <<global_variables, sequential>>
    /\ ThreadFrame

\* load_variables_from_yaml: vars.insert(v.name, v.value) for the next pair
LoadInsert(t) ==
    LET f == thread[t] IN
    /\ f.pc = "held"
    /\ f.at = "load"
    /\ f.todo # <<>>
    /\ Becomes(t, [f EXCEPT !.todo = Tail(@)],
               Insert(global_variables, Head(f.todo).name, Head(f.todo).value))
    /\ UNCHANGED <<mutex, sequential>>
    /\ ThreadFrame

\* load_variables_from_yaml: the loop is over, Ok(()), the guard is dropped
Loaded(t) ==
    LET f == thread[t] IN
    /\ f.pc = "held"
    /\ f.at = "load"
    /\ f.todo = <<>>
    /\ mutex' = drop_guard(mutex)
    /\ thread' = [thread EXCEPT ![t] = [f EXCEPT !.pc = "done", !.at = "none"]]
    /\ UNCHANGED <<global_variables, sequential>>
    /\ ThreadFrame

\* a thread panics in its critical section: as it unwinds the guard is
\* dropped and marks the mutex poisoned
PanicsHoldingLock(t) ==
    LET f == thread[t] IN
    /\ f.pc = "held"
    /\ mutex' = [holder |-> 0, poisoned |-> TRUE]
    /\ thread' = [thread EXCEPT ![t] =
                     [f EXCEPT !.pc = "done", !.at = "none", !.panic = "fault"]]
    /\ UNCHANGED <<global_variables, sequential>>
    /\ ThreadFrame

InitThreads ==
    /\ global_variables = EmptyMap
    /\ written = {}
    /\ last = NoCall
    /\ snapshot = EmptyMap
    /\ handle = "none"
    /\ declared = EmptyMap
    /\ NoThreads
    /\ NoFileOpen

\* the store operations called from several threads: the input of the
\* imports names two variables
ThreadYamlInput ==
    to_string(<< [name |-> <<"x">>, value |-> <<"A">>],
                 [name |-> <<"y">>, value |-> <<"A">>] >>)

InitStoreThreads ==
    /\ InitThreads
    /\ content = <<>>
    /\ yaml_content = ThreadYamlInput

NextStoreThreads ==
    \E t \in Threads :
        \/ \E n \in Names : CallSetGlobalVariable(t, n, GlobalValue)
        \/ \E n \in Names : CallGetGlobalVariable(t, n)
        \/ CallGetAllGlobalVariables(t)
        \/ CallLoadVariablesFromYaml(t)
        \/ CallExportVariablesToYaml(t)
        \/ Lock(t)
        \/ SetInsert(t)
        \/ GetCloned(t)
        \/ CloneEntry(t)
        \/ Cloned(t)
        \/ LoadInsert(t)
        \/ Loaded(t)

SpecStoreThreads == InitStoreThreads /\ [][NextStoreThreads]_vars

\* every operation of the store called from several threads, each thread
\* going on as long as it can take a step
LockDocs ==
    { <<"{", "{", "x", "}", "}", " ", "{", "{", "x", "}", "}">>,
      <<"<!-- @var", " ", "-->">> }

InitLock ==
    /\ InitThreads
    /\ content \in LockDocs
    /\ yaml_content = ThreadYamlInput

\* the steps of a call that has begun
Proceed(t) ==
    \/ Lock(t)
    \/ SetInsert(t)
    \/ GetCloned(t)
    \/ CloneEntry(t)
    \/ Cloned(t)
    \/ LoadInsert(t)
    \/ Loaded(t)

NextLock ==
    \E t \in Threads :
        \/ CallSetGlobalVariable(t, <<"x">>, GlobalValue)
        \/ CallGetGlobalVariable(t, <<"x">>)
        \/ CallGetAllGlobalVariables(t)
        \/ CallLoadVariablesFromYaml(t)
        \/ CallExportVariablesToYaml(t)
        \/ CallProcessVariables(t)
        \/ Proceed(t)

\* a thread that can take a step takes one: the operating system runs every
\* thread, and a thread asleep in lock() is woken when the mutex is free
SpecLock ==
    InitLock /\ [][NextLock]_vars /\ \A t \in Threads : WF_vars(Proceed(t))

\* the same threads, one of which may panic inside a critical section
InitPoison ==
    /\ InitThreads
    /\ content = <<" ", "{", "{", "x", "}", "}">>
    /\ yaml_content = ThreadYamlInput

NextPoison ==
    \E t \in Threads :
        \/ CallSetGlobalVariable(t, <<"x">>, GlobalValue)
        \/ CallGetGlobalVariable(t, <<"x">>)
        \/ CallGetAllGlobalVariables(t)
        \/ CallLoadVariablesFromYaml(t)
        \/ CallExportVariablesToYaml(t)
        \/ CallProcessVariables(t)
        \/ Proceed(t)
        \/ PanicsHoldingLock(t)

SpecPoison == InitPoison /\ [][NextPoison]_vars

\* expansions called from several threads, next to writers of the store;
\* the overrides' value is one no declaration, import or set gives
OverrideValue == <<"C">>

ThreadOverrides ==
    { [n \in D |-> OverrideValue] : D \in {{<<"x">>}, {<<"x">>, <<"y">>}} }

ExpandThreadDocs ==
    { <<"{", "{", "x", "}", "}", " ", "{", "{", "x", "}", "}">>,
      <<"<!-- @var", " ", "y", ":", " ", "A", " ", "-->", "\n",
        "{", "{", "y", "}", "}", "{", "{", " ", "x", " ", "}", "}">> }

InitExpandThreads ==
    /\ InitThreads
    /\ content \in ExpandThreadDocs
    /\ yaml_content = ThreadYamlInput

NextExpandThreads ==
    \E t \in Threads :
        \/ CallSetGlobalVariable(t, <<"x">>, GlobalValue)
        \/ CallLoadVariablesFromYaml(t)
        \/ CallProcessVariables(t)
        \/ \E o \in ThreadOverrides : CallProcessMarkdown(t, o)
        \/ \E o \in ThreadOverrides : CallGetExpandedMarkdown(t, o)
        \/ Lock(t)
        \/ SetInsert(t)
        \/ GetCloned(t)
        \/ LoadInsert(t)
        \/ Loaded(t)

SpecExpandThreads == InitExpandThreads /\ [][NextExpandThreads]_vars

-----------------------------------------------------------------------------
(* File association: the open-file events and their buffer.  A path is a     *)
(* sequence of tokens: "/", ".", and names; the event handler and the        *)
(* commands all run on the main thread, one after the other.                 *)

\* Path::file_name: what follows the last "/"
file_name(path) == SubSeq(path, rfind(path, "/") + 1, Len(path))

\* Path::extension: what follows the last "." of the file name, if the file
\* name has one that is not its first character
extension(path) ==
    LET name == file_name(path)
        dot == rfind(name, ".")
    IN IF dot <= 1 THEN None ELSE Some(SubSeq(name, dot + 1, Len(name)))

\* str::to_lowercase, on the names of the model
to_lowercase(s) ==
    [i \in DOMAIN s |->
        CASE s[i] = "MD" -> "md"
          [] s[i] = "Txt" -> "txt"
          [] OTHER -> s[i]]

\* Path::exists
exists(path) == disk[path].exists

\* the paths the system asks the application to open
OpenPaths == Paths

\* handle_open_file_event: the three nested tests
accepted(path) ==
    /\ exists(path)
    /\ extension(path).some
    /\ to_lowercase(extension(path).val) \in { <<"md">>, <<"txt">> }

\* is_frontend_ready
is_frontend_ready == frontend_ready

\* get_pending_file_paths that leaves the buffer as it is
get_pending_file_paths_kept(paths) == [result |-> paths, paths |-> paths]

\* get_pending_file_paths: paths.clone(), paths.clear()
get_pending_file_paths(paths) == [result |-> paths, paths |-> <<>>]

\* app_handle.emit("open-file", OpenFileEvent { file_path }), with its Result
emit(file_path, ok) == [event |-> "open-file", file_path |-> file_path, ok |-> ok]

FileOpenFrame ==
    UNCHANGED <<global_variables, written, content, yaml_content, snapshot, handle,
                declared, threads_vars>>

\* file_association.rs handle_open_file_event
HandleOpenFileEvent(file_path) ==
    /\ Len(pending_file_paths) + Len(emitted) < MaxEvents
    /\ last' = [Call("handle_open_file_event") EXCEPT !.text = file_path]
    /\ IF ~accepted(file_path)
       THEN UNCHANGED <<pending_file_paths, emitted>>
       ELSE IF is_frontend_ready
       THEN \E ok \in BOOLEAN :
               /\ emitted' = Append(emitted, emit(file_path, ok))
               /\ pending_file_paths' = IF ok THEN pending_file_paths
                                        ELSE Append(pending_file_paths, file_path)
       ELSE /\ pending_file_paths' = Append(pending_file_paths, file_path)
            /\ UNCHANGED emitted
    /\ UNCHANGED <<frontend_ready, disk, opening>>
    /\ FileOpenFrame

\* commands.rs set_frontend_ready_command: set_frontend_ready, then every
\* path of get_pending_file_paths is emitted, the Results dropped
SetFrontendReadyCommand ==
    LET pending == get_pending_file_paths(pending_file_paths) IN
    /\ frontend_ready' = TRUE
    /\ pending_file_paths' = pending.paths
    /\ \E oks \in [DOMAIN pending.result -> BOOLEAN] :
          emitted' = emitted \o [i \in DOMAIN pending.result |->
                                    emit(pending.result[i], oks[i])]
    /\ UNCHANGED <<disk, opening>>
    /\ last' = [Call("set_frontend_ready_command") EXCEPT
                    !.variables = pending.result]
    /\ FileOpenFrame

\* commands.rs get_pending_file_paths_command
GetPendingFilePathsCommand ==
    LET pending == get_pending_file_paths(pending_file_paths) IN
    /\ pending_file_paths' = pending.paths
    /\ last' = [Call("get_pending_file_paths_command") EXCEPT
                    !.variables = pending.result]
    /\ UNCHANGED <<frontend_ready, emitted, disk, opening>>
    /\ FileOpenFrame

InitFileOpen ==
    /\ global_variables = EmptyMap
    /\ written = {}
    /\ content = <<>>
    /\ yaml_content = <<>>
    /\ last = NoCall
    /\ snapshot = EmptyMap
    /\ handle = "none"
    /\ declared = EmptyMap
    /\ NoThreads
    /\ NoFileOpen

NextFileOpen ==
    \/ \E file_path \in OpenPaths : HandleOpenFileEvent(file_path)
    \/ SetFrontendReadyCommand
    \/ GetPendingFilePathsCommand

SpecFileOpen == InitFileOpen /\ [][NextFileOpen]_vars

-----------------------------------------------------------------------------
(* The open-file handler and set_frontend_ready_command step by step: each   *)
(* lock of FRONTEND_READY or PENDING_FILE_PATHS is taken and released within *)
(* one step, and the steps of different threads interleave.                  *)

OpeningFrame ==
    UNCHANGED <<global_variables, written, content, yaml_content, last, snapshot,
                handle, declared, threads_vars, disk>>

\* handle_open_file_event up to the end of is_frontend_ready()
BeginOpenFileEvent(h, file_path) ==
    /\ opening.handler[h].pc = "idle"
    /\ opening' = [opening EXCEPT !.handler[h] =
          [pc |-> IF ~accepted(file_path) THEN "done"
                  ELSE IF is_frontend_ready THEN "emit" ELSE "buffer",
           file_path |-> file_path,
           early |-> opening.command.pc # "returned"]]
    /\ UNCHANGED <<frontend_ready, pending_file_paths, emitted>>
    /\ OpeningFrame

\* the match on app_handle.emit(..): return on Ok, go on to buffer on Err
EmitOpenFileEvent(h) ==
    /\ opening.handler[h].pc = "emit"
    /\ \E ok \in BOOLEAN :
          /\ emitted' = Append(emitted, emit(opening.handler[h].file_path, ok))
          /\ opening' = [opening EXCEPT !.handler[h].pc = IF ok THEN "done" ELSE "buffer"]
    /\ UNCHANGED <<frontend_ready, pending_file_paths>>
    /\ OpeningFrame

\* pending_paths.lock(), paths.push(file_path)
BufferOpenFileEvent(h) ==
    /\ opening.handler[h].pc = "buffer"
    /\ pending_file_paths' = Append(pending_file_paths, opening.handler[h].file_path)
    /\ opening' = [opening EXCEPT !.handler[h].pc = "done"]
    /\ UNCHANGED <<frontend_ready, emitted>>
    /\ OpeningFrame

\* set_frontend_ready_command: set_frontend_ready()
SetFrontendReady ==
    /\ opening.command.pc = "idle"
    /\ frontend_ready' = TRUE
    /\ opening' = [opening EXCEPT !.command.pc = "pending"]
    /\ UNCHANGED <<pending_file_paths, emitted>>
    /\ OpeningFrame

\* set_frontend_ready_command: let pending = get_pending_file_paths()
TakePending ==
    LET pending == get_pending_file_paths(pending_file_paths) IN
    /\ opening.command.pc = "pending"
    /\ pending_file_paths' = pending.paths
    /\ opening' = [opening EXCEPT !.command =
                      [pc |-> "emit", pending |-> pending.result]]
    /\ UNCHANGED <<frontend_ready, emitted>>
    /\ OpeningFrame

\* set_frontend_ready_command: one turn of the loop over pending, or its end
EmitPending ==
    /\ opening.command.pc = "emit"
    /\ IF opening.command.pending = <<>>
       THEN /\ opening' = [opening EXCEPT !.command.pc = "returned"]
            /\ UNCHANGED emitted
       ELSE \E ok \in BOOLEAN :
              /\ emitted' = Append(emitted, emit(Head(opening.command.pending), ok))
              /\ opening' = [opening EXCEPT !.command.pending = Tail(@)]
    /\ UNCHANGED <<frontend_ready, pending_file_paths>>
    /\ OpeningFrame

\* the paths the handlers of this specification are given
RacePaths == { <<"/", "a", ".", "md">>, <<"/", "b", ".", "Txt">>, <<"/", "d", ".", "rs">> }

InitReadyRace == InitFileOpen

NextReadyRace ==
    \/ \E h \in Handlers, file_path \in RacePaths : BeginOpenFileEvent(h, file_path)
    \/ \E h \in Handlers : EmitOpenFileEvent(h)
    \/ \E h \in Handlers : BufferOpenFileEvent(h)
    \/ SetFrontendReady
    \/ TakePending
    \/ EmitPending

SpecReadyRace == InitReadyRace /\ [][NextReadyRace]_vars

-----------------------------------------------------------------------------
(* File operations: read_file and save_file.  A result is Ok with the text   *)
(* or Err with the message.                                                  *)

Ok(text) == [ok |-> TRUE, text |-> text]
Err(message) == [ok |-> FALSE, text |-> <<message>>]

\* the extension check of read_file and of save_file: a path with no
\* extension passes it
extension_check(path) ==
    extension(path).some =>
        to_lowercase(extension(path).val) \in { <<"md">>, <<"txt">> }

\* an extension check that turns down a path with no extension
extension_check_strict(path) ==
    /\ extension(path).some
    /\ to_lowercase(extension(path).val) \in { <<"md">>, <<"txt">> }

\* commands.rs read_file
read_file(d, path) ==
    IF ~d[path].exists THEN Err("File not found")
    ELSE IF d[path].len > MaxFileSize THEN Err("File too large (max 10MB)")
    ELSE IF ~extension_check(path)
    THEN Err("Unsupported file type. Only .md and .txt files are supported")
    ELSE IF ~d[path].utf8 THEN Err("Failed to read file")
    ELSE Ok(d[path].content)

\* the texts the frontend saves
SavedTexts == { <<"saved">> }

\* commands.rs save_file; written says whether fs::write went through
save_file(d, path, text, write_ok) ==
    IF ~extension_check(path)
    THEN [result |-> Err("Unsupported file type. Only .md and .txt files are supported"),
          disk |-> d]
    ELSE IF ~write_ok
    THEN [result |-> Err("Failed to save file"), disk |-> d]
    ELSE [result |-> Ok(<<>>), disk |-> [d EXCEPT ![path] = TextFile(text)]]

FilesFrame ==
    UNCHANGED <<global_variables, written, content, yaml_content, snapshot, handle,
                declared, threads_vars, frontend_ready, pending_file_paths, emitted,
                opening>>

ReadFile(path) ==
    LET result == read_file(disk, path) IN
    /\ last' = [Call("read_file") EXCEPT
                    !.name = path, !.ok = result.ok, !.text = result.text]
    /\ UNCHANGED disk
    /\ FilesFrame

SaveFile(path, text) ==
    \E write_ok \in BOOLEAN :
        LET saved == save_file(disk, path, text, write_ok) IN
        /\ last' = [Call("save_file") EXCEPT
                        !.name = path, !.value = text,
                        !.ok = saved.result.ok, !.text = saved.result.text]
        /\ disk' = saved.disk
        /\ FilesFrame

InitFiles == InitFileOpen

NextFiles ==
    \/ \E path \in Paths : ReadFile(path)
    \/ \E path \in Paths, text \in SavedTexts : SaveFile(path, text)

SpecFiles == InitFiles /\ [][NextFiles]_vars

-----------------------------------------------------------------------------
(* A session: documents expanded one after the other on the same store *)

SessionDocs ==
    { <<"<!-- @var", " ", "x", ":", " ", "A", " ", "-->", "\n", "{", "{", "x", "}", "}">>,
      <<"<!-- @var", " ", "y", ":", "A", ":", "x", " ", "-->", "\n",
        "{", "{", "y", "}", "}", "{", "{", " ", "x", "}", "}">>,
      <<"{", "{", "x", "}", "}", " ", "{", "{", "y", " ", "}", "}">> }

\* the next call is given another document (content is a parameter of
\* process_variables and of the commands)
OpenDocument(d) ==
    /\ d # content
    /\ content' = d
    /\ last' = Call("open")
    /\ UNCHANGED <<global_variables, written, yaml_content, snapshot, handle,
                   declared, threads_vars, file_open_vars>>

InitSession ==
    /\ global_variables = EmptyMap
    /\ written = {}
    /\ content \in SessionDocs
    /\ yaml_content = <<>>
    /\ last = NoCall
    /\ snapshot = EmptyMap
    /\ handle = "none"
    /\ declared = EmptyMap
    /\ NoThreads
    /\ NoFileOpen

NextSession ==
    \/ \E n \in Names : SetGlobalVariable(n, GlobalValue)
    \/ ProcessVariables
    \/ \E d \in SessionDocs : OpenDocument(d)

SpecSession == InitSession /\ [][NextSession]_vars

-----------------------------------------------------------------------------
(* What the claims about documents speak of *)

\* s with its matches ms replaced, in order, by the texts r[1], r[2], ...
RECURSIVE splice(_, _, _, _, _)
splice(s, ms, r, i, j) ==
    IF j > Len(ms) THEN SubSeq(s, i, Len(s))
    ELSE SubSeq(s, i, ms[j].first - 1) \o r[j]
         \o splice(s, ms, r, ms[j].last + 1, j + 1)

\* the trimmed name of match m of s
NameOf(s, m) == trim(SubSeq(s, m.first + 2, m.last - 2))

\* the values a document's declarations give a name
LocalValues(variables, name) ==
    { variables[i].value : i \in { k \in 1..Len(variables) : variables[k].name = name } }

\* t occurs in s, token for token
Occurs(t, s) ==
    \E i \in 1..(Len(s) - Len(t) + 1) : SubSeq(s, i, i + Len(t) - 1) = t

\* no line of the text matches the declaration or the include pattern
NoPatternLine(text) ==
    \A i \in 1..Len(lines(text)) :
        /\ ~is_var_line(trim(lines(text)[i]))
        /\ ~is_include_line(trim(lines(text)[i]))

\* the text between the markers of a line that matches the declaration pattern
Interior(line) ==
    SubSeq(trim(line), Len(VarPrefix) + 1, Len(trim(line)) - Len(Suffix))

WellFormedDeclaration(line) ==
    is_var_line(trim(line)) /\ find(Interior(line), ":") # 0

OrdinaryLine(line) ==
    ~is_var_line(trim(line)) /\ ~is_include_line(trim(line))

DeclarationOf(line) ==
    LET c == find(Interior(line), ":") IN
    [name  |-> trim(SubSeq(Interior(line), 1, c - 1)),
     value |-> trim(SubSeq(Interior(line), c + 1, Len(Interior(line))))]

ExpectedDeclarations(text) ==
    LET wf == SelectSeq(lines(text), WellFormedDeclaration) IN
    [i \in 1..Len(wf) |-> DeclarationOf(wf[i])]

ExpectedRemainder(text) == join(SelectSeq(lines(text), OrdinaryLine))

\* the placeholders of the remainder whose name is declared in the document
\* and set in the store
BothPlaceholders ==
    LET parsed == parse_variables_from_markdown(content)
        ms == matches(parsed.processed)
    IN { j \in 1..Len(ms) :
            /\ LocalValues(parsed.variables, NameOf(parsed.processed, ms[j])) # {}
            /\ NameOf(parsed.processed, ms[j]) \in DOMAIN last.before }

\* C1: when process_variables expands a placeholder whose trimmed name is
\* declared in the document and also set in the global store, the text put in
\* its place is a value the document declares for it, not the global value:
\* the output is the remainder with every such placeholder replaced by a local
\* value (whatever stands in place of the other placeholders).
C1_LocalBeatsGlobal ==
    (last.op = "process" /\ ~last.panicked) =>
        LET parsed == parse_variables_from_markdown(content)
            rem == parsed.processed
            ms == matches(rem)
            Candidates(j) ==
                IF j \in BothPlaceholders
                THEN LocalValues(parsed.variables, NameOf(rem, ms[j]))
                ELSE LocalValues(parsed.variables, NameOf(rem, ms[j]))
                     \cup { last.before[n] : n \in DOMAIN last.before }
                     \cup { SubSeq(rem, ms[j].first, ms[j].last) }
        IN \E r \in [1..Len(ms) -> UNION { Candidates(j) : j \in 1..Len(ms) }] :
              /\ \A j \in 1..Len(ms) : r[j] \in Candidates(j)
              /\ last.text = splice(rem, ms, r, 1, 1)

\* C1 witness: an expansion of a document with such a placeholder, the value
\* in the store differing from the declared one
C1_Witness ==
    /\ last.op = "process"
    /\ ~last.panicked
    /\ BothPlaceholders # {}
    /\ \A n \in DOMAIN last.before :
          last.before[n] \notin LocalValues(parse_variables_from_markdown(content).variables, n)
    /\ Occurs(<<"A">>, last.text)

\* C2 (as claimed): a placeholder of the input whose trimmed name is neither
\* declared nor set stands in the output exactly as written in the input.
\* Stated for documents without declaration or include lines, where every
\* placeholder of the input reaches the expansion and nothing is declared.
C2_UnresolvedVerbatim ==
    (last.op = "process" /\ NoPatternLine(content)) =>
        \A j \in 1..Len(matches(content)) :
            NameOf(content, matches(content)[j]) \notin DOMAIN last.before =>
                Occurs(SubSeq(content, matches(content)[j].first,
                              matches(content)[j].last), last.text)

\* C5 (as claimed): parse_variables_from_markdown and process_variables
\* return a result for every document; they never panic.
C5_NeverPanics ==
    last.op \in {"parse", "process"} => ~last.panicked

\* C6 (as claimed): on a content none of whose lines matches the declaration
\* or the include pattern, parse_variables_from_markdown returns no
\* declaration and the content itself, character for character.
C6_ParseIdentity ==
    (last.op = "parse" /\ NoPatternLine(content)) =>
        /\ last.variables = <<>>
        /\ last.text = content

\* C7 (as claimed): for every document parse_variables_from_markdown returns
\* the well-formed declarations in the order of their lines, and as remainder
\* the lines matching neither pattern, verbatim, in order, joined by "\n".
C7_ParserShape ==
    last.op = "parse" =>
        /\ ~last.panicked
        /\ last.variables = ExpectedDeclarations(content)
        /\ last.text = ExpectedRemainder(content)

\* What is left of C7 when the parser returns: the shape of its result.
ParserShapeWhenReturned ==
    (last.op = "parse" /\ ~last.panicked) =>
        /\ last.variables = ExpectedDeclarations(content)
        /\ last.text = ExpectedRemainder(content)

\* What is left of C2 and C6 on the parser's remainder: an unresolved
\* placeholder of the remainder stands in the output as it stands there.
UnresolvedVerbatimInRemainder ==
    (last.op = "process" /\ ~last.panicked) =>
        LET parsed == parse_variables_from_markdown(content)
            rem == parsed.processed
        IN \A j \in 1..Len(matches(rem)) :
              (/\ NameOf(rem, matches(rem)[j]) \notin DOMAIN last.before
               /\ LocalValues(parsed.variables, NameOf(rem, matches(rem)[j])) = {})
              => Occurs(SubSeq(rem, matches(rem)[j].first, matches(rem)[j].last),
                        last.text)

-----------------------------------------------------------------------------
(* What the claims about the store and the codec speak of *)

\* the names the last call was asked to write
WrittenByLast ==
    CASE last.op = "set" -> {last.name}
      [] last.op = "load" ->
            IF from_str(yaml_content).ok
            THEN NamesOf(from_str(yaml_content).variables)
            ELSE {}
      [] last.op \in {"process_markdown", "get_expanded_markdown"} ->
            DOMAIN last.overrides
      [] OTHER -> {}

\* C3: load_variables_from_yaml called with an input that is not well-formed
\* returns an error and leaves the global store equal to what it was before
\* the call: no pair of the input is merged.
C3_ImportAtomic ==
    (last.op = "load" /\ ~from_str(yaml_content).ok) =>
        /\ ~last.ok
        /\ global_variables = last.before

\* C3 witness: a failed import of an input whose first pairs are readable and
\* would have changed the store
C3_Witness ==
    /\ last.op = "load"
    /\ ~last.ok
    /\ from_str(yaml_content).variables # <<>>
    /\ insert_all(last.before, from_str(yaml_content).variables) # last.before

\* C4: exporting a store S and importing the text into an empty store gives
\* a store with the (name, value) pairs of S, whatever the order of the export.
C4_RoundTrip ==
    last.op = "roundtrip" =>
        /\ last.ok
        /\ last.map = last.before

\* C4 witness: a round trip of a store of two names, one value the empty
\* string (written in quotes)
C4_Witness ==
    /\ last.op = "roundtrip"
    /\ Cardinality(DOMAIN last.before) = 2
    /\ \E n \in DOMAIN last.before : last.before[n] = <<>>
    /\ Occurs(<<"'", "'">>, last.text)

\* C8: after set_global_variable(n, v), get_global_variable(n) is Some(v) and
\* get_global_variable of every other name is what it was; get_global_variable
\* of a name no call has written is None.
C8_SetIsUpsert ==
    /\ last.op = "set" =>
          /\ get_global_variable(global_variables, last.name) = Some(last.value)
          /\ \A n \in (Names \cup DOMAIN global_variables \cup DOMAIN last.before)
                        \ {last.name} :
                get_global_variable(global_variables, n)
                    = get_global_variable(last.before, n)
    /\ (last.op = "get" /\ last.name \notin written) => last.opt = None

\* C8 witness: a set that overwrites another value
C8_Witness ==
    /\ last.op = "set"
    /\ last.name \in DOMAIN last.before
    /\ last.before[last.name] # last.value
    /\ Cardinality(DOMAIN last.before) = 2

\* C9: no call removes a name from the global store, and a name keeps its
\* value through every call that was not asked to write it.
C9_NamesPersist ==
    \A n \in DOMAIN last.before :
        /\ n \in DOMAIN global_variables
        /\ global_variables[n] # last.before[n] => n \in WrittenByLast

\* C9 witness: a successful import into a store holding a name the input
\* does not mention
C9_Witness ==
    /\ last.op = "load"
    /\ last.ok
    /\ DOMAIN last.before \ NamesOf(from_str(yaml_content).variables) # {}

\* C10: the mapping get_all_global_variables returned is a copy: a caller's
\* insert or remove on it leaves the global store as it is, and a later
\* set_global_variable leaves the returned mapping as it is.
C10_IndependentCopy ==
    [][ handle # "none" =>
          /\ last'.op \in {"caller_insert", "caller_remove"} =>
                global_variables' = global_variables
          /\ last'.op = "set" => HeldMapping' = HeldMapping ]_vars

\* C10 witness: after a get_all_global_variables, an insert by the caller and
\* a set_global_variable, the mapping the caller holds and the store each
\* have a name the other lacks
C10_Witness ==
    /\ handle # "none"
    /\ last.op = "set"
    /\ last.name \notin DOMAIN HeldMapping
    /\ DOMAIN HeldMapping \ DOMAIN global_variables # {}

\* the two commands that expand with overrides
ExpandOps == {"process_markdown", "get_expanded_markdown"}

\* the store a YAML text of export_variables_to_yaml describes
StoreOf(text) == insert_all(EmptyMap, from_str(text).variables)

ResolvedHere(text, store, rem, m) ==
    LET decls == ExpectedDeclarations(text)
        own == { k \in 1..Len(decls) : decls[k].name = NameOf(rem, m) }
    IN IF own # {}
       THEN decls[CHOOSE k \in own : \A l \in own : l <= k].value
       ELSE IF NameOf(rem, m) \in DOMAIN store THEN store[NameOf(rem, m)]
       ELSE SubSeq(rem, m.first, m.last)

\* the placeholders of the document's remainder whose name an earlier
\* document declared, this document does not, and the store does not hold
\* with the declared value
DeclaredEarlier ==
    LET rem == ExpectedRemainder(content)
        ms == matches(rem)
    IN { j \in 1..Len(ms) :
            /\ NameOf(rem, ms[j]) \in DOMAIN declared
            /\ LocalValues(ExpectedDeclarations(content), NameOf(rem, ms[j])) = {}
            /\ ResolvedHere(content, global_variables, rem, ms[j])
                  # declared[NameOf(rem, ms[j])] }

\* C12: process_variables leaves the global store as it was before the call,
\* and its output is the document's remainder with each placeholder resolved
\* from the declarations of this document and the store alone: what the
\* documents expanded earlier declared plays no part.
C12_LocalsNotPersisted ==
    (last.op = "process" /\ ~last.panicked) =>
        /\ global_variables = last.before
        /\ LET rem == ExpectedRemainder(content)
               ms == matches(rem)
           IN last.text
                = splice(rem, ms,
                         [j \in 1..Len(ms) |->
                             ResolvedHere(content, global_variables, rem, ms[j])],
                         1, 1)

\* C12 witness: the expansion of a document with a placeholder whose name an
\* earlier document declared and this one does not
C12_Witness ==
    /\ last.op = "process"
    /\ ~last.panicked
    /\ DeclaredEarlier # {}
    /\ \E j \in DeclaredEarlier :
          NameOf(ExpectedRemainder(content), matches(ExpectedRemainder(content))[j])
              \notin DOMAIN global_variables

\* the value of the last pair of the sequence that has the name
LastValue(variables, name) ==
    LET at == { k \in 1..Len(variables) : variables[k].name = name }
    IN variables[CHOOSE k \in at : \A l \in at : l <= k].value

\* C13: after a successful load_variables_from_yaml every name of the input
\* maps to the value of its last occurrence in the input's variables
\* sequence, every name of the store that the input does not mention keeps
\* its value, and the store has no other name.
C13_ImportLastWins ==
    (last.op = "load" /\ last.ok) =>
        LET variables == from_str(yaml_content).variables IN
        /\ DOMAIN global_variables = DOMAIN last.before \cup NamesOf(variables)
        /\ \A n \in NamesOf(variables) :
              global_variables[n] = LastValue(variables, n)
        /\ \A n \in DOMAIN last.before \ NamesOf(variables) :
              global_variables[n] = last.before[n]

\* C13 witness: a successful import of an input that names one variable
\* twice with different values, into a store that holds that name with the
\* second value's opposite and another name besides
C13_Witness ==
    /\ last.op = "load"
    /\ last.ok
    /\ LET variables == from_str(yaml_content).variables IN
       /\ Len(variables) = 2
       /\ variables[1].name = variables[2].name
       /\ variables[1].value # variables[2].value
       /\ variables[1].name \in DOMAIN last.before
       /\ last.before[variables[1].name] # variables[2].value
       /\ DOMAIN last.before \ NamesOf(variables) # {}

-----------------------------------------------------------------------------
(* What the claims about concurrent callers speak of *)

\* the call of thread t has returned
Returned(t) == thread[t].pc = "done" /\ thread[t].panic = "none"

\* C14: with set_global_variable, get_global_variable and
\* get_all_global_variables (and the import and export built on the same
\* lock) called from several threads in any interleaving, the calls have one
\* order, that of their critical sections: every get returns what it returns
\* when the calls run one at a time in that order, every mapping of get_all
\* is the store after the writes that come before it in that order, and
\* with no call in its critical section the store is the store after all
\* the writes begun.
C14_TotalOrder ==
    /\ \A t \in Threads :
          Returned(t) =>
              /\ thread[t].op = "get" => thread[t].opt = thread[t].expect_opt
              /\ thread[t].op \in {"get_all", "export"} =>
                    thread[t].map = thread[t].expect_map
    /\ mutex.holder = 0 => global_variables = sequential

\* C14 witness: a get_all has returned a mapping that one set of the other
\* thread made and that the same thread's second set, since, has changed
C14_Witness ==
    \E r, w \in Threads :
        /\ Returned(r)
        /\ thread[r].op = "get_all"
        /\ thread[r].map # EmptyMap
        /\ Returned(w)
        /\ thread[w].op = "set"
        /\ thread[w].calls = 2
        /\ thread[r].calls = 1
        /\ thread[r].map # global_variables

\* import l has inserted some of its pairs and the store is neither what it
\* was when the import took the lock nor what the whole import makes of it
MidImport(l) ==
    /\ thread[l].op = "load"
    /\ thread[l].pc = "held"
    /\ global_variables # thread[l].before
    /\ global_variables
          # insert_all(thread[l].before, from_str(yaml_content).variables)

\* thread r is where get_global_variable, get_all_global_variables (and
\* export_variables_to_yaml through it) read the store
Reading(r) ==
    /\ thread[r].pc = "held"
    /\ thread[r].at \in {"get", "get_all"}

\* C18: while an import has inserted some but not all of its pairs, no other
\* thread is at the place where get_global_variable, get_all_global_variables
\* or export_variables_to_yaml reads the store, and the mapping get_all and
\* export work on is the store as it was when they took the lock.
C18_ImportAtomicToReaders ==
    \A l, r \in Threads :
        /\ (l # r /\ MidImport(l)) => ~Reading(r)
        /\ (Returned(r) /\ thread[r].op \in {"get_all", "export"}) =>
              thread[r].map = thread[r].before

\* C18 witness: an import of two pairs has inserted the first, and the other
\* thread waits at the lock() of a reading function
C18_Witness ==
    \E l, r \in Threads :
        /\ l # r
        /\ MidImport(l)
        /\ Len(thread[l].todo) = 1
        /\ thread[r].pc = "lock"
        /\ thread[r].at \in {"get", "get_all"}

\* C15: a thread that comes to a lock().unwrap() of the store, in set, get,
\* get_all, import, export or process_variables, does not hold the store's
\* lock, a thread holds it only inside one critical section, and every call
\* that has begun comes to its end: no thread waits for the lock for ever.
C15_LockDiscipline ==
    /\ [](\A t \in Threads :
             /\ thread[t].pc = "lock" => mutex.holder # t
             /\ mutex.holder = t => thread[t].pc = "held")
    /\ \A t \in Threads :
          (thread[t].pc \in {"lock", "held"}) ~> (thread[t].pc = "done")

\* C15 witness: process_variables, for the second placeholder of its
\* document, waits at the lock() of get_global_variable while the other
\* thread is in the insert loop of an import
C15_Witness ==
    \E t, u \in Threads :
        /\ thread[t].op = "process_variables"
        /\ thread[t].pc = "lock"
        /\ Len(thread[t].plan) = 1
        /\ mutex.holder = u
        /\ u # t
        /\ thread[u].op = "load"

\* C16 (as claimed): after a thread has panicked while it held the store's
\* lock, the calls of the other threads still complete: none of them unwinds
\* at its lock().unwrap().
C16_RecoverableLock ==
    \A t \in Threads : thread[t].panic # "poison"

\* C17 (as claimed): the text a process_variables call returns is the
\* expansion of its document against one state the store had between the
\* call and the return.
C17_ExpansionAtomic ==
    \A t \in Threads :
        (Returned(t) /\ thread[t].op = "process_variables") =>
            \E store \in thread[t].stores :
                thread[t].text = process_variables(store, content).out

\* the placeholders of the document's remainder whose name is a key of the
\* overrides of thread t's call and is not declared in the document
OverridePlaceholders(t) ==
    LET rem == ExpectedRemainder(content)
        ms == matches(rem)
    IN { j \in 1..Len(ms) :
            /\ NameOf(rem, ms[j]) \in DOMAIN thread[t].overrides
            /\ LocalValues(ExpectedDeclarations(content), NameOf(rem, ms[j])) = {} }

\* C19 (as claimed): the text process_markdown or get_expanded_markdown
\* returns has every placeholder whose trimmed name is a key of the call's
\* overrides, and is not declared in the document, replaced by the call's
\* override value (whatever stands in place of the other placeholders).
C19_OverridesResolved ==
    \A t \in Threads :
        (Returned(t) /\ thread[t].op \in ExpandOps) =>
            LET rem == ExpectedRemainder(content)
                ms == matches(rem)
                Candidates(j) ==
                    IF j \in OverridePlaceholders(t)
                    THEN { thread[t].overrides[NameOf(rem, ms[j])] }
                    ELSE LocalValues(ExpectedDeclarations(content), NameOf(rem, ms[j]))
                         \cup { <<"A">>, GlobalValue, OverrideValue }
                         \cup { SubSeq(rem, ms[j].first, ms[j].last) }
            IN \E r \in [1..Len(ms) -> UNION { Candidates(j) : j \in 1..Len(ms) }] :
                  /\ \A j \in 1..Len(ms) : r[j] \in Candidates(j)
                  /\ thread[t].text = splice(rem, ms, r, 1, 1)

\* what holds of the two: each placeholder by itself is resolved against a
\* state the store had during the call
EachLookupAgainstSomeStore ==
    \A t \in Threads :
        (Returned(t) /\ thread[t].op = "process_variables") =>
            LET rem == ExpectedRemainder(content)
                ms == matches(rem)
                At(j) == { process_variables(store,
                               SubSeq(rem, ms[j].first, ms[j].last)).out :
                           store \in thread[t].stores }
            IN \E r \in [1..Len(ms) -> UNION { At(j) : j \in 1..Len(ms) }] :
                  /\ \A j \in 1..Len(ms) : r[j] \in At(j)
                  /\ thread[t].text
                        = splice(rem, ms,
                                 [j \in 1..Len(ms) |->
                                     IF LocalValues(ExpectedDeclarations(content),
                                                    NameOf(rem, ms[j])) # {}
                                     THEN ResolvedHere(content, EmptyMap, rem, ms[j])
                                     ELSE r[j]],
                                 1, 1)

-----------------------------------------------------------------------------
(* What the claim about file-open events speaks of *)

\* an existing file whose extension is md or txt
ExistingMdOrTxt(path) ==
    /\ exists(path)
    /\ Len(path) >= 3
    /\ path[Len(path) - 1] = "."
    /\ path[Len(path)] \in {"md", "txt"}
    /\ path[Len(path) - 2] # "/"

\* C20: for an existing file with extension md or txt,
\* handle_open_file_event calls emit("open-file") with the path at once when
\* the frontend is ready, and otherwise appends the path to the pending
\* buffer and emits nothing; set_frontend_ready_command makes the frontend
\* ready, emits the buffered paths, each once and in the order they came,
\* after what was emitted before, and leaves the buffer empty.
C20_FileOpenFlow ==
    [][ /\ (last'.op = "handle_open_file_event" /\ ExistingMdOrTxt(last'.text)) =>
              IF frontend_ready
              THEN /\ Len(emitted') = Len(emitted) + 1
                   /\ SubSeq(emitted', 1, Len(emitted)) = emitted
                   /\ emitted'[Len(emitted')].event = "open-file"
                   /\ emitted'[Len(emitted')].file_path = last'.text
                   /\ emitted'[Len(emitted')].ok =>
                         pending_file_paths' = pending_file_paths
              ELSE /\ pending_file_paths' = Append(pending_file_paths, last'.text)
                   /\ emitted' = emitted
        /\ last'.op = "set_frontend_ready_command" =>
              /\ frontend_ready'
              /\ pending_file_paths' = <<>>
              /\ Len(emitted') = Len(emitted) + Len(pending_file_paths)
              /\ SubSeq(emitted', 1, Len(emitted)) = emitted
              /\ \A i \in 1..Len(pending_file_paths) :
                    /\ emitted'[Len(emitted) + i].event = "open-file"
                    /\ emitted'[Len(emitted) + i].file_path = pending_file_paths[i]
      ]_vars

\* C20 witness: set_frontend_ready_command has emitted two different paths
\* that were buffered while the frontend was not ready, after which a third
\* file was opened and emitted at once
C20_Witness ==
    /\ last.op = "handle_open_file_event"
    /\ frontend_ready
    /\ pending_file_paths = <<>>
    /\ Len(emitted) = 3
    /\ emitted[1].file_path = <<"/", "a", ".", "md">>
    /\ emitted[2].file_path # emitted[1].file_path
    /\ emitted[3].file_path = last.text
    /\ \A i \in 1..3 : emitted[i].ok

-----------------------------------------------------------------------------
(* What the claims about the file commands speak of *)

\* the path ends in a dot and md or txt, in whatever case
EndsInMdOrTxt(path) ==
    /\ Len(path) >= 2
    /\ path[Len(path) - 1] = "."
    /\ path[Len(path)] \in {"md", "MD", "txt", "Txt"}

\* C21: for every path whose extension is not md or txt (whatever the case),
\* a path with no extension at all included, read_file returns an error and
\* no file content.
C21_ReadFileMdTxtOnly ==
    (last.op = "read_file" /\ ~EndsInMdOrTxt(last.name)) => ~last.ok

\* what does hold of read_file: a path that has an extension other than md
\* or txt is turned down
C21_OtherExtensionRefused ==
    (last.op = "read_file" /\ extension(last.name).some /\ ~EndsInMdOrTxt(last.name))
        => ~last.ok

-----------------------------------------------------------------------------
(* What the claims about nested values and repeated declarations speak of *)

\* what may stand for match m of the remainder rem: a value the document
\* declares for its name; failing that the value the store had for it;
\* failing that the match as it stands
ValuesFor(variables, store, rem, m) ==
    IF LocalValues(variables, NameOf(rem, m)) # {}
    THEN LocalValues(variables, NameOf(rem, m))
    ELSE IF NameOf(rem, m) \in DOMAIN store THEN { store[NameOf(rem, m)] }
    ELSE { SubSeq(rem, m.first, m.last) }

\* the placeholders of the remainder for which a value that holds the text
\* {{y}} may stand, y being declared or set
NestedPlaceholders ==
    LET parsed == parse_variables_from_markdown(content)
        ms == matches(parsed.processed)
    IN { j \in 1..Len(ms) :
            /\ PlaceholderY \in ValuesFor(parsed.variables, last.before,
                                          parsed.processed, ms[j])
            /\ NameOf(parsed.processed, ms[j]) # <<"y">>
            /\ \/ LocalValues(parsed.variables, <<"y">>) # {}
               \/ <<"y">> \in DOMAIN last.before }

\* C22: expansion is one pass over the remainder: each placeholder is looked
\* up once, left to right, and the value found is put in its place as it is;
\* a value that holds placeholder text {{y}} stands verbatim in the output,
\* not expanded, even when y is declared or set.
C22_SinglePass ==
    (last.op = "process" /\ ~last.panicked) =>
        LET parsed == parse_variables_from_markdown(content)
            rem == parsed.processed
            ms == matches(rem)
            Candidates(j) == ValuesFor(parsed.variables, last.before, rem, ms[j])
        IN \E r \in [1..Len(ms) -> UNION { Candidates(j) : j \in 1..Len(ms) }] :
              /\ \A j \in 1..Len(ms) : r[j] \in Candidates(j)
              /\ last.text = splice(rem, ms, r, 1, 1)

\* C22 witness: an expansion of a remainder that is the single placeholder
\* {{x}}, x having the value {{y}} and y being resolvable: the output is the
\* text {{y}}
C22_Witness ==
    /\ last.op = "process"
    /\ ~last.panicked
    /\ parse_variables_from_markdown(content).processed = <<"{", "{", "x", "}", "}">>
    /\ NestedPlaceholders = {1}
    /\ last.text = PlaceholderY

\* the value of the last declaration of the name in the document
LastDeclared(text, name) ==
    LET ds == ExpectedDeclarations(text)
        k == CHOOSE k \in 1..Len(ds) :
                /\ ds[k].name = name
                /\ \A l \in (k + 1)..Len(ds) : ds[l].name # name
    IN ds[k].value

\* the names the document declares on more than one line
DeclaredTwice(text) ==
    LET ds == ExpectedDeclarations(text) IN
    { ds[k].name : k \in { k \in 1..Len(ds) :
                              \E l \in 1..Len(ds) : l # k /\ ds[l].name = ds[k].name } }

\* C23: when a document declares a name on several lines,
\* parse_variables_from_markdown returns a declaration for every one of these
\* lines, in order, and process_variables puts the value of the last of them
\* in the place of every placeholder of that name, before or after the
\* declarations (other placeholders get their one declared value, else the
\* stored one, else stay).
C23_LastDeclarationWins ==
    /\ (last.op = "parse" /\ ~last.panicked) =>
            last.variables = ExpectedDeclarations(content)
    /\ (last.op = "process" /\ ~last.panicked) =>
            LET rem == ExpectedRemainder(content)
                ms == matches(rem)
                r == [j \in 1..Len(ms) |->
                        IF \E k \in 1..Len(ExpectedDeclarations(content)) :
                              ExpectedDeclarations(content)[k].name = NameOf(rem, ms[j])
                        THEN LastDeclared(content, NameOf(rem, ms[j]))
                        ELSE IF NameOf(rem, ms[j]) \in DOMAIN last.before
                        THEN last.before[NameOf(rem, ms[j])]
                        ELSE SubSeq(rem, ms[j].first, ms[j].last)]
            IN last.text = splice(rem, ms, r, 1, 1)

\* C23 witness: the expansion of a document whose first line is the
\* placeholder {{x}} and whose next two lines declare x, first as A, then as
\* the text {{y}}: the output is the second value
C23_Witness ==
    /\ last.op = "process"
    /\ ~last.panicked
    /\ DeclaredTwice(content) = { <<"x">> }
    /\ lines(content)[1] = <<"{", "{", "x", "}", "}">>
    /\ Len(ExpectedDeclarations(content)) = 2
    /\ ExpectedDeclarations(content)[1].value = <<"A">>
    /\ last.text = PlaceholderY

-----------------------------------------------------------------------------
(* What the claims about single declaration lines speak of *)

\* the trimmed line starts with "<!-- @var " and ends with " -->", and there
\* is no colon between the two
MalformedDeclaration(line) ==
    is_var_line(trim(line)) /\ find(Interior(line), ":") = 0

\* the trimmed line has room for both markers side by side
MarkersApart(line) == Len(trim(line)) >= Len(VarPrefix) + Len(Suffix)

\* C24 (as claimed): a line whose trimmed form starts with "<!-- @var " and
\* ends with " -->" and has no colon in between is dropped from the
\* remainder, adds no declaration and raises no error: the parser returns,
\* with the declarations of the other lines and the ordinary lines only.
C24_MalformedVanish ==
    (/\ last.op = "parse"
     /\ \E i \in 1..Len(lines(content)) : MalformedDeclaration(lines(content)[i])) =>
        /\ ~last.panicked
        /\ last.variables = ExpectedDeclarations(content)
        /\ last.text = ExpectedRemainder(content)

\* What is left of C24 when the markers of every such line stand apart
\* ("<!-- @var x -->", not "<!-- @var -->"): the line vanishes silently.
MalformedVanishWhenMarkersApart ==
    (/\ last.op = "parse"
     /\ \E i \in 1..Len(lines(content)) : MalformedDeclaration(lines(content)[i])
     /\ \A i \in 1..Len(lines(content)) :
           MalformedDeclaration(lines(content)[i]) => MarkersApart(lines(content)[i])) =>
        /\ ~last.panicked
        /\ last.variables = ExpectedDeclarations(content)
        /\ last.text = ExpectedRemainder(content)

\* the trimmed line is a declaration line with a colon between its markers
HasColon(line) ==
    /\ is_var_line(trim(line))
    /\ \E i \in 1..Len(Interior(line)) : Interior(line)[i] = ":"

\* where the first colon of s stands
FirstColon(s) ==
    CHOOSE i \in 1..Len(s) : s[i] = ":" /\ \A j \in 1..(i - 1) : s[j] # ":"

\* how many colons s holds
Colons(s) == Cardinality({ i \in 1..Len(s) : s[i] = ":" })

\* C25: for each declaration line whose interior holds one colon or more,
\* the declaration returned has as name the trimmed text before the first
\* colon and as value the trimmed text after it; the value keeps every later
\* colon.
C25_SplitAtFirstColon ==
    (last.op = "parse" /\ ~last.panicked) =>
        LET ds == SelectSeq(lines(content), HasColon) IN
        /\ Len(last.variables) = Len(ds)
        /\ \A k \in 1..Len(ds) :
              LET interior == Interior(ds[k])
                  c == FirstColon(interior)
              IN /\ last.variables[k].name = trim(SubSeq(interior, 1, c - 1))
                 /\ last.variables[k].value = trim(SubSeq(interior, c + 1, Len(interior)))
                 /\ Colons(last.variables[k].name) = 0
                 /\ Colons(last.variables[k].value) = Colons(interior) - 1

\* C25 witness: the parser has returned, for a line whose interior is
\* "y:A:x", the name y and the value "A:x"
C25_Witness ==
    /\ last.op = "parse"
    /\ ~last.panicked
    /\ \E k \in 1..Len(last.variables) :
          /\ last.variables[k].name = <<"y">>
          /\ last.variables[k].value = <<"A", ":", "x">>
          /\ Colons(Interior(SelectSeq(lines(content), HasColon)[k])) = 2

-----------------------------------------------------------------------------
(* What the claims about the pending buffer speak of *)

\* how often the path stands in the sequence of paths
Count(paths, path) == Cardinality({ i \in 1..Len(paths) : paths[i] = path })

\* how often the step takes the path out of the pending buffer
Removed(path) ==
    Count(pending_file_paths, path) - Count(pending_file_paths', path)

\* how often the step hands the path to the frontend: the open-file events
\* of the step that carry it and went through, and its occurrences in the
\* return value of get_pending_file_paths_command
HandedOver(path) ==
    Cardinality({ i \in (Len(emitted) + 1)..Len(emitted') :
                    emitted'[i].file_path = path /\ emitted'[i].ok })
    + (IF last'.op = "get_pending_file_paths_command"
       THEN Count(last'.variables, path) ELSE 0)

\* C26 (as claimed): in every step, whatever the emits of the step return, a
\* path leaves the pending buffer only as often as the step hands it to the
\* frontend (by an open-file emit that succeeds or in the return value of
\* get_pending_file_paths_command), and a path the step hands over does not
\* stay in the buffer to be handed over again.
C26_NoBufferedPathLost ==
    [][ \A path \in Paths :
            /\ Removed(path) <= HandedOver(path)
            /\ HandedOver(path) > 0 =>
                  Count(pending_file_paths', path) <= Count(pending_file_paths, path)
            /\ last'.op # "handle_open_file_event" => HandedOver(path) <= Removed(path)
      ]_vars

\* What is left of C26 outside set_frontend_ready_command: the handler and
\* get_pending_file_paths_command lose no path.
NoBufferedPathLostElsewhere ==
    [][ last'.op # "set_frontend_ready_command" =>
          \A path \in Paths :
            /\ Removed(path) <= HandedOver(path)
            /\ HandedOver(path) > 0 =>
                  Count(pending_file_paths', path) <= Count(pending_file_paths, path)
            /\ last'.op # "handle_open_file_event" => HandedOver(path) <= Removed(path)
      ]_vars

\* set_frontend_ready_command has returned, every handler that began before
\* that has finished, and none has begun since
AfterReadyAndEarlyHandlers ==
    /\ opening.command.pc = "returned"
    /\ \A h \in Handlers :
          \/ opening.handler[h].pc = "idle"
          \/ opening.handler[h].pc = "done" /\ opening.handler[h].early

\* C27 (as claimed): in every interleaving of handle_open_file_event with
\* set_frontend_ready_command, once the command has returned and every
\* handler that began before its return has finished, the pending buffer is
\* empty: no accepted path waits for a get_pending_file_paths_command.
C27_NoPathStranded ==
    AfterReadyAndEarlyHandlers => pending_file_paths = <<>>

=============================================================================
